---------------------------- MODULE Spec2Model ----------------------------
(***************************************************************************)
(* Churn-risk scoring: the validation engine (data/validator.py), the      *)
(* customer record and its encoding contract (data/schemas.py), the        *)
(* predictor (models/predictor.py), the batch runner                       *)
(* (ui/batch_processing.py) and the explainer (models/explainer.py).       *)
(*                                                                         *)
(* Python values are records [t, n, s]: t is the type tag ("int", "str",   *)
(* "none", "absent", or the name of an Enum class), n the number of an int *)
(* and s the text of a str or the member name of an Enum member.  Money    *)
(* amounts are whole units; probabilities are in ten-thousandths.          *)
(***************************************************************************)
EXTENDS Integers, Sequences, FiniteSets, TLC

VARIABLES
    py,         \* the interpreter the process runs on: "py311" or "py312"
    data,       \* the attribute mapping handed to the validation engine
    customer,   \* the object handed to ChurnPredictor.predict
    artifact,   \* the model file on disk: "ok", "missing" or "corrupt"
    cache,      \* st.cache_resource memo of ChurnPredictor._load_model
    predictor,  \* the ChurnPredictor instance: [built, model]
    loads,      \* how many times joblib.load has deserialized the artifact
    first,      \* the outcome of the first predict(customer) of the session
    batch,      \* the uploaded frame: the sequence of its rows
    run,        \* _process_batch_predictions in flight: [pos, model, results,
                \* errors, predicted]
    shap,       \* SHAP_AVAILABLE: whether the import of shap succeeded
    explainer,  \* the SHAPExplainer instance: [built, explainer, model]
    ecache,     \* st.cache_resource memo of SHAPExplainer._initialize_explainer
    draw,       \* the raw indicator columns drawn for the background sample
    shap_dict,  \* the dictionary handed to SHAPExplainer.interpret_shap_values
    builds,     \* how many times the body of _initialize_explainer has run
    flow,       \* the single-prediction script run: [pos, validation_errors,
                \* business_errors]
    call        \* the last operation called, its argument and its outcome

predictorVars == <<artifact, cache, predictor, loads, first>>
batchVars == <<batch, run>>
explainerVars == <<shap, explainer, ecache, draw, shap_dict, builds>>

vars == <<py, data, customer, predictorVars, batchVars, explainerVars, flow,
          call>>

--------------------------------------------------------------------------
(* Python values *)

IntV(n) == [t |-> "int", n |-> n, s |-> ""]
StrV(s) == [t |-> "str", n |-> 0, s |-> s]
NoneV == [t |-> "none", n |-> 0, s |-> ""]
Absent == [t |-> "absent", n |-> 0, s |-> ""]
NanV == [t |-> "nan", n |-> 0, s |-> ""]
EnumV(cls, name) == [t |-> cls, n |-> 0, s |-> name]

\* config/constants.py: the four Enum classes, members in declaration order
EnumMembers ==
    [Gender |-> <<"MALE", "FEMALE">>,
     Country |-> <<"FRANCE", "GERMANY", "SPAIN">>,
     Category |-> <<"RUBIS", "SILVER", "GOLD", "PLATINUM">>,
     BinaryChoice |-> <<"YES", "NO">>]

\* the .value of each member
EnumRawValues ==
    [Gender |-> <<"Homme", "Femme">>,
     Country |-> <<"France", "Allemagne", "Espagne">>,
     Category |-> <<"RUBIS", "SILVER", "GOLD", "PLATINUM">>,
     BinaryChoice |-> <<"Oui", "Non">>]

EnumClasses == {"Gender", "Country", "Category", "BinaryChoice"}

Range(seq) == {seq[i] : i \in 1..Len(seq)}

MembersOf(cls) == {EnumV(cls, m) : m \in Range(EnumMembers[cls])}

YES == EnumV("BinaryChoice", "YES")
NO == EnumV("BinaryChoice", "NO")

\* isinstance(v, Enum)
IsEnumInstance(v) == v.t \in EnumClasses

VALIDATION_RANGES ==
    [credit_score |-> [min |-> 300, max |-> 900],
     age |-> [min |-> 18, max |-> 100],
     tenure |-> [min |-> 0, max |-> 20],
     balance |-> [min |-> 0, max |-> 300000],
     num_of_products |-> [min |-> 1, max |-> 4],
     estimated_salary |-> [min |-> 0, max |-> 300000],
     satisfaction_score |-> [min |-> 0, max |-> 5],
     point_earned |-> [min |-> 0, max |-> 100000]]

\* the numeric fields in the order validate_customer_data visits them
NumericFields ==
    <<"credit_score", "age", "tenure", "balance", "num_of_products",
      "estimated_salary", "satisfaction_score", "point_earned">>

\* the enumeration fields in the order validate_customer_data visits them
EnumFields ==
    <<"gender", "country", "category", "has_credit_card",
      "is_active_member", "complain">>

EnumClassOf ==
    [gender |-> "Gender", country |-> "Country", category |-> "Category",
     has_credit_card |-> "BinaryChoice", is_active_member |-> "BinaryChoice",
     complain |-> "BinaryChoice"]

Fields == Range(NumericFields) \cup Range(EnumFields)

\* dict.get(key): None when the key is absent
Get(d, key) == IF d[key] = Absent THEN NoneV ELSE d[key]

\* dict.get(key, default): the default only when the key is absent
GetDefault(d, key, default) ==
    IF d[key] = Absent THEN default ELSE d[key]

--------------------------------------------------------------------------
(* Error messages, by what they name *)

NoMsg == [kind |-> "", field |-> "", lo |-> 0, hi |-> 0, got |-> NoneV,
          vals |-> <<>>, detail |-> ""]

\* "<field> doit etre entre <min> et <max>, recu : <value>"
RangeMsg(field, value) ==
    [NoMsg EXCEPT !.kind = "range", !.field = field,
                  !.lo = VALIDATION_RANGES[field].min,
                  !.hi = VALIDATION_RANGES[field].max, !.got = value]

\* "Champ inconnu : <field>"
UnknownFieldMsg(field) ==
    [NoMsg EXCEPT !.kind = "unknown_field", !.field = field]

\* "<field> doit etre l'une des valeurs : <values>, recu : <value>"
EnumMsg(field, cls, value) ==
    [NoMsg EXCEPT !.kind = "enum", !.field = field,
                  !.vals = EnumRawValues[cls], !.got = value]

\* "Le champ <field> est requis"
RequiredMsg(field) == [NoMsg EXCEPT !.kind = "required", !.field = field]

\* "Erreur de validation inattendue : <str(e)>"
UnexpectedMsg(detail) == [NoMsg EXCEPT !.kind = "unexpected", !.detail = detail]

\* the three business-rule messages
BusinessMsg(rule) == [NoMsg EXCEPT !.kind = "business", !.detail = rule]

Returned(value) == [exc |-> "none", msg |-> NoMsg, value |-> value]
Raised(exc, msg) == [exc |-> exc, msg |-> msg, value |-> <<>>]

--------------------------------------------------------------------------
(* DataValidator *)

\* min <= value <= max raises TypeError unless value is a number
validate_numeric_field_strict(value, field_name) ==
    IF field_name \notin DOMAIN VALIDATION_RANGES
    THEN Raised("DataValidationError", UnknownFieldMsg(field_name))
    ELSE IF value.t # "int"
    THEN Raised("TypeError",
                [NoMsg EXCEPT !.detail = "'<=' not supported", !.got = value])
    ELSE IF ~(VALIDATION_RANGES[field_name].min < value.n
              /\ value.n < VALIDATION_RANGES[field_name].max)
    THEN Raised("DataValidationError", RangeMsg(field_name, value))
    ELSE Returned(<<>>)

\* a NaN compares False with every bound
validate_numeric_field(value, field_name) ==
    IF field_name \notin DOMAIN VALIDATION_RANGES
    THEN Raised("DataValidationError", UnknownFieldMsg(field_name))
    ELSE IF value = NanV
    THEN Raised("DataValidationError", RangeMsg(field_name, value))
    ELSE IF value.t # "int"
    THEN Raised("TypeError",
                [NoMsg EXCEPT !.detail = "'<=' not supported", !.got = value])
    ELSE IF ~(VALIDATION_RANGES[field_name].min <= value.n
              /\ value.n <= VALIDATION_RANGES[field_name].max)
    THEN Raised("DataValidationError", RangeMsg(field_name, value))
    ELSE Returned(<<>>)

\* value in enum_class.  An Enum member is contained iff it is a member of
\* that class.  For any other value the interpreter decides: before 3.12
\* EnumMeta.__contains__ raises TypeError, from 3.12 on it answers whether
\* the value is the .value of a member.
EnumContains(value, enum_class) ==
    IF IsEnumInstance(value)
    THEN [exc |-> "none", holds |-> value \in MembersOf(enum_class)]
    ELSE IF py = "py311"
    THEN [exc |-> "TypeError", holds |-> FALSE]
    ELSE [exc |-> "none",
          holds |-> value.t = "str"
                    /\ value.s \in Range(EnumRawValues[enum_class])]

validate_enum_field(value, enum_class, field_name) ==
    LET c == EnumContains(value, enum_class)
    IN  IF c.exc # "none"
        THEN Raised(c.exc,
                    [NoMsg EXCEPT !.detail = "unsupported operand type(s) for 'in'",
                                  !.got = value])
        ELSE IF ~c.holds
        THEN Raised("DataValidationError", EnumMsg(field_name, enum_class, value))
        ELSE Returned(<<>>)

\* the loop over numeric_fields from position i, errors collected so far;
\* an exception other than DataValidationError leaves the loop
RECURSIVE NumericLoop(_, _, _)
NumericLoop(d, i, errors) ==
    IF i > Len(NumericFields) THEN [exc |-> "none", msg |-> NoMsg, errors |-> errors]
    ELSE LET field == NumericFields[i]
             value == Get(d, field)
         IN  IF value = NoneV
             THEN NumericLoop(d, i + 1, Append(errors, RequiredMsg(field)))
             ELSE LET r == validate_numeric_field(value, field)
                  IN  IF r.exc = "none" THEN NumericLoop(d, i + 1, errors)
                      ELSE IF r.exc = "DataValidationError"
                      THEN NumericLoop(d, i + 1, Append(errors, r.msg))
                      ELSE [exc |-> r.exc, msg |-> r.msg, errors |-> errors]

\* the loop over enum_validations, likewise
RECURSIVE EnumLoop(_, _, _)
EnumLoop(d, i, errors) ==
    IF i > Len(EnumFields) THEN [exc |-> "none", msg |-> NoMsg, errors |-> errors]
    ELSE LET field_name == EnumFields[i]
             value == Get(d, field_name)
         IN  IF value = NoneV
             THEN EnumLoop(d, i + 1, Append(errors, RequiredMsg(field_name)))
             ELSE LET r == validate_enum_field(value, EnumClassOf[field_name],
                                               field_name)
                  IN  IF r.exc = "none" THEN EnumLoop(d, i + 1, errors)
                      ELSE IF r.exc = "DataValidationError"
                      THEN EnumLoop(d, i + 1, Append(errors, r.msg))
                      ELSE [exc |-> r.exc, msg |-> r.msg, errors |-> errors]

\* the body of the outer try of validate_customer_data
ValidateBody(d) ==
    LET n == NumericLoop(d, 1, <<>>)
    IN  IF n.exc # "none" THEN n ELSE EnumLoop(d, 1, n.errors)

\* without the outer except: the exception escapes
validate_customer_data_no_except(d) ==
    LET b == ValidateBody(d)
    IN  IF b.exc # "none" THEN Raised(b.exc, b.msg) ELSE Returned(b.errors)

validate_customer_data(d) ==
    LET b == ValidateBody(d)
    IN  IF b.exc # "none"
        THEN Returned(Append(b.errors, UnexpectedMsg(b.msg.detail)))
        ELSE Returned(b.errors)

\* a < k, a > k, a >= k on Python values: TypeError unless a is a number
CmpLt(a, k) == IF a.t = "int" THEN [exc |-> "none", holds |-> a.n < k]
               ELSE [exc |-> "TypeError", holds |-> FALSE]
CmpLe(a, k) == IF a.t = "int" THEN [exc |-> "none", holds |-> a.n <= k]
               ELSE [exc |-> "TypeError", holds |-> FALSE]
CmpGt(a, k) == IF a.t = "int" THEN [exc |-> "none", holds |-> a.n > k]
               ELSE [exc |-> "TypeError", holds |-> FALSE]
CmpGe(a, k) == IF a.t = "int" THEN [exc |-> "none", holds |-> a.n >= k]
               ELSE [exc |-> "TypeError", holds |-> FALSE]

\* x and y: y is evaluated only when x holds
And(x, y) == IF x.exc # "none" THEN x ELSE IF ~x.holds THEN x ELSE y

\* the young / high-salary rule with age <= 25
RuleYoungHighSalary_le(d) ==
    And(CmpLe(GetDefault(d, "age", IntV(0)), 25),
        CmpGt(GetDefault(d, "estimated_salary", IntV(0)), 150000))

RuleYoungHighSalary(d) ==
    And(CmpLt(GetDefault(d, "age", IntV(0)), 25),
        CmpGt(GetDefault(d, "estimated_salary", IntV(0)), 150000))

RuleLowCreditHighBalance(d) ==
    And(CmpLt(GetDefault(d, "credit_score", IntV(0)), 400),
        CmpGt(GetDefault(d, "balance", IntV(0)), 200000))

RuleProductsInactive(d) ==
    And(CmpGe(GetDefault(d, "num_of_products", IntV(0)), 4),
        [exc |-> "none", holds |-> Get(d, "is_active_member") = NO])

\* the three ifs in order; the first exception ends the call
validate_business_rules(d) ==
    LET a == RuleYoungHighSalary(d)
        b == RuleLowCreditHighBalance(d)
        c == RuleProductsInactive(d)
        ea == IF a.holds THEN <<BusinessMsg("age_salary")>> ELSE <<>>
        eb == IF b.holds THEN <<BusinessMsg("credit_balance")>> ELSE <<>>
        ec == IF c.holds THEN <<BusinessMsg("products_inactive")>> ELSE <<>>
    IN  IF a.exc # "none" THEN Raised(a.exc, NoMsg)
        ELSE IF b.exc # "none" THEN Raised(b.exc, NoMsg)
        ELSE IF c.exc # "none" THEN Raised(c.exc, NoMsg)
        ELSE Returned(ea \o eb \o ec)

--------------------------------------------------------------------------
(* Attribute mappings handed to the validation engine *)

MaxDefects == 2

Interpreters == {"py311", "py312"}

\* tests/test_validator.py setUp: valid_data
Base ==
    [credit_score |-> IntV(650), age |-> IntV(35), tenure |-> IntV(5),
     balance |-> IntV(50000), num_of_products |-> IntV(2),
     estimated_salary |-> IntV(75000), satisfaction_score |-> IntV(4),
     point_earned |-> IntV(1000),
     has_credit_card |-> YES, is_active_member |-> YES, complain |-> NO,
     gender |-> EnumV("Gender", "MALE"), country |-> EnumV("Country", "FRANCE"),
     category |-> EnumV("Category", "SILVER")]

\* min-1, min, max, max+1 of a numeric field
BoundaryValues(f) ==
    {IntV(VALIDATION_RANGES[f].min - 1), IntV(VALIDATION_RANGES[f].min),
     IntV(VALIDATION_RANGES[f].max), IntV(VALIDATION_RANGES[f].max + 1)}

\* the valid mapping with one numeric field on or next to a bound
BoundaryInputs ==
    UNION {{[Base EXCEPT ![f] = v] : v \in BoundaryValues(f)}
           : f \in Range(NumericFields)}

\* what a field can hold that is not an acceptable value: the key absent,
\* None, a value of the wrong type, a number out of range; for an
\* enumeration field the raw .value string of a member, a string that is no
\* member's value, and a member of another Enum class
DefectSeq(f) ==
    IF f \in Range(NumericFields)
    THEN <<Absent, NoneV, StrV("abc"), IntV(VALIDATION_RANGES[f].max + 1)>>
    ELSE <<Absent, NoneV, StrV(EnumRawValues[EnumClassOf[f]][1]), StrV("Italie"),
           IF f = "gender" THEN EnumV("Country", "FRANCE")
           ELSE EnumV("Gender", "MALE")>>

DefectsOf(f) == Range(DefectSeq(f))

AllDefects == UNION {DefectsOf(f) : f \in Fields}

\* the valid mapping with the fields of S replaced by the defects c picks
Defected(S, c) ==
    [f \in Fields |-> IF f \in S THEN DefectSeq(f)[c[f]] ELSE Base[f]]

\* d is the valid mapping with at most k fields replaced by a defect
IsDefectInput(d, k) ==
    \E S \in {T \in SUBSET Fields : Cardinality(T) <= k} :
        \E c \in [S -> 1..5] :
            /\ \A f \in S : c[f] <= Len(DefectSeq(f))
            /\ d = Defected(S, c)

\* the six fields the business rules read, on either side of each threshold
BusinessInputs ==
    {[Base EXCEPT !["age"] = IntV(a), !["estimated_salary"] = IntV(s),
                  !["credit_score"] = IntV(c), !["balance"] = IntV(b),
                  !["num_of_products"] = IntV(n), !["is_active_member"] = m]
       : a \in {24, 25}, s \in {150000, 150001}, c \in {399, 400},
         b \in {200000, 200001}, n \in {3, 4}, m \in {YES, NO}}


\* mappings for the direct calls of validate_numeric_field
NumericFieldInputs ==
    BoundaryInputs
    \cup {[Base EXCEPT ![f] = v] : f \in Fields, v \in AllDefects \ {Absent}}

--------------------------------------------------------------------------
(* State *)

NoModel == "None"
ArtifactStates == {"ok", "missing", "corrupt"}

\* deserializations of the artifact a session is followed for
MaxLoads == 2
NoCustomer == [kind |-> "none", fields |-> Base, dict |-> <<>>]
NoCall == [op |-> "none", field |-> "", value |-> NoneV, out |-> Returned(<<>>)]

\* the form not submitted: no script run of the single-prediction page in
\* flight
NoFlow == [pos |-> "idle", validation_errors |-> <<>>, business_errors |-> <<>>]

\* others: whether another customer was predicted after the first outcome
NoFirst == [seen |-> FALSE, others |-> FALSE, out |-> Returned(<<>>)]
\* no background sample; the sample of the given rows
NoBackground == [none |-> TRUE, rows |-> <<>>]
Background(rows) == [none |-> FALSE, rows |-> rows]

\* SHAPExplainer instances followed in one process
MaxInstances == 2

\* self.explainer, self.background_data and self.predictor.model of a
\* SHAPExplainer; instance tells the how-manieth SHAPExplainer of the
\* process it is
NoExplainer == [built |-> FALSE, explainer |-> "None",
                background |-> NoBackground, model |-> NoModel,
                instance |-> 0]

\* the memo of _initialize_explainer: nothing returned yet
EmptyMemo == [filled |-> FALSE, explainer |-> "None", background |-> NoBackground]

\* a fresh process: nothing memoized, no instance, nothing called
InitCommon ==
    /\ py \in Interpreters
    /\ cache = NoModel
    /\ predictor = [built |-> FALSE, model |-> NoModel]
    /\ loads = 0
    /\ first = NoFirst
    /\ flow = NoFlow
    /\ call = NoCall

\* no batch in flight: pos is the 1-based position of the next row (0
\* before the run), model the model attribute of the processor's
\* predictor, predicted the rows predict was called for
Idle == [pos |-> 0, model |-> NoModel, results |-> <<>>, errors |-> <<>>,
         predicted |-> {}]

\* no file uploaded
InitNoBatch == batch = <<>> /\ run = Idle

\* get_shap_explanation has returned None: there is no dictionary to interpret
NoShapDict == [none |-> TRUE, shap_values |-> <<>>, feature_values |-> <<>>]

\* runs of the body of _initialize_explainer followed
MaxBuilds == 2

\* the explainer module imported and no SHAPExplainer made yet
InitNoExplainer ==
    /\ shap = FALSE
    /\ explainer = NoExplainer
    /\ ecache = EmptyMemo
    /\ draw = <<>>
    /\ shap_dict = NoShapDict
    /\ builds = 0

\* DataValidator.validate_numeric_field(data[f], f), called directly
CallValidateNumericField(f) ==
    /\ data[f] # Absent
    /\ call' = [op |-> "validate_numeric_field", field |-> f, value |-> data[f],
                out |-> validate_numeric_field(data[f], f)]
    /\ UNCHANGED <<py, flow, data, customer, predictorVars, batchVars, explainerVars>>

\* the mapping after reads by setdefault: every absent key inserted with
\* None
after_setdefault(d) ==
    [f \in DOMAIN d |-> IF d[f] = Absent THEN NoneV ELSE d[f]]

\* the mapping after the validators have read it: data.get(key) and
\* data.get(key, default) insert nothing, and nothing is assigned or deleted
after_get(d) == d

\* DataValidator.validate_customer_data(data)
CallValidateCustomerData ==
    /\ call' = [op |-> "validate_customer_data", field |-> "", value |-> NoneV,
                out |-> validate_customer_data(data)]
    /\ data' = after_get(data)
    /\ UNCHANGED <<py, flow, customer, predictorVars, batchVars, explainerVars>>

\* DataValidator.validate_business_rules(data)
CallValidateBusinessRules ==
    /\ call' = [op |-> "validate_business_rules", field |-> "", value |-> NoneV,
                out |-> validate_business_rules(data)]
    /\ data' = after_get(data)
    /\ UNCHANGED <<py, flow, customer, predictorVars, batchVars, explainerVars>>

InitNumericField ==
    /\ InitCommon
    /\ data \in NumericFieldInputs
    /\ customer = NoCustomer
    /\ artifact = "ok"
    /\ InitNoBatch
    /\ InitNoExplainer

NextNumericField == \E f \in Fields : CallValidateNumericField(f)

SpecNumericField == InitNumericField /\ [][NextNumericField]_vars

InitValidator ==
    /\ InitCommon
    /\ \/ data \in BoundaryInputs
       \/ data \in BusinessInputs
       \/ IsDefectInput(data, MaxDefects)
    /\ customer = NoCustomer
    /\ artifact = "ok"
    /\ InitNoBatch
    /\ InitNoExplainer

NextValidator ==
    \/ CallValidateCustomerData
    \/ CallValidateBusinessRules

SpecValidator == InitValidator /\ [][NextValidator]_vars

--------------------------------------------------------------------------
(* Claims about the validation engine *)

InRange(v, f) ==
    /\ v.t = "int"
    /\ VALIDATION_RANGES[f].min <= v.n
    /\ v.n <= VALIDATION_RANGES[f].max

\* the fields named by the messages of an error list
NamedFields(errors) == {errors[i].field : i \in 1..Len(errors)}

Kinds(errors) == {errors[i].kind : i \in 1..Len(errors)}

\* C1: validate_numeric_field accepts a value equal to the field's min or
\* max, and raises DataValidationError for min-1 and max+1 with a message
\* that names the field, both bounds and the received value.
C1_NumericBoundaries ==
    (call.op = "validate_numeric_field" /\ call.field \in Range(NumericFields)
     /\ call.value.t = "int")
    => LET r == VALIDATION_RANGES[call.field]
           v == call.value.n
       IN  /\ v \in {r.min, r.max} => call.out.exc = "none"
           /\ v \in {r.min - 1, r.max + 1} =>
                /\ call.out.exc = "DataValidationError"
                /\ call.out.msg.kind = "range"
                /\ call.out.msg.field = call.field
                /\ call.out.msg.lo = r.min
                /\ call.out.msg.hi = r.max
                /\ call.out.msg.got = call.value

\* credit_score 901 has been rejected
C1_Witness ==
    /\ call.op = "validate_numeric_field"
    /\ call.field = "credit_score"
    /\ call.value = IntV(901)
    /\ call.out.exc = "DataValidationError"

\* every field holds an acceptable value: numeric fields a number inside
\* the closed range, enumeration fields a member of their Enum class
FullyAcceptable(d) ==
    /\ \A f \in Range(NumericFields) : InRange(d[f], f)
    /\ \A f \in Range(EnumFields) : d[f] \in MembersOf(EnumClassOf[f])

\* C2: validate_customer_data returns an empty list if and only if all 8
\* numeric fields are present and inside their range and all 6 enumeration
\* fields are present and members of their enumeration.
C2_EmptyIffAcceptable ==
    call.op = "validate_customer_data"
    => (call.out.exc = "none" /\ call.out.value = <<>>) <=> FullyAcceptable(data)

\* C3: whenever a required field is missing from the mapping, the returned
\* list contains an error that names that field, whatever the other fields
\* hold.
C3_MissingFieldNamed ==
    call.op = "validate_customer_data"
    => \A f \in Fields : data[f] = Absent => f \in NamedFields(call.out.value)

\* a value whose type makes the range comparison or the Enum containment
\* test fail instead of answering
WrongTyped(d) ==
    \/ \E f \in Range(NumericFields) : d[f].t \notin {"int", "none", "absent"}
    \/ /\ py = "py311"
       /\ \A f \in Range(NumericFields) : d[f].t \in {"int", "none", "absent"}
       /\ \E f \in Range(EnumFields) : d[f].t \notin EnumClasses \cup {"none", "absent"}

\* C4: validate_customer_data never raises; for any mapping, values of the
\* wrong type included, it returns a list, and an internal failure shows up
\* as one more error string, the last of the list.
C4_NeverRaises ==
    call.op = "validate_customer_data"
    => /\ call.out.exc = "none"
       /\ WrongTyped(data) =>
            /\ Len(call.out.value) >= 1
            /\ call.out.value[Len(call.out.value)].kind = "unexpected"
       /\ ~WrongTyped(data) => "unexpected" \notin Kinds(call.out.value)

\* a mapping with a string in a numeric field has been validated
C4_Witness ==
    /\ call.op = "validate_customer_data"
    /\ data["balance"] = StrV("abc")
    /\ call.out.exc = "none"
    /\ "unexpected" \in Kinds(call.out.value)

\* the rules reported by a list of business errors
Rules(errors) == {errors[i].detail : i \in 1..Len(errors)}

BusinessFieldsNumeric(d) ==
    \A f \in {"age", "estimated_salary", "credit_score", "balance",
              "num_of_products"} : d[f].t = "int"

\* C5: validate_business_rules reports each of the three inconsistencies
\* exactly when its condition holds, independently of the other two, with
\* strict comparisons (age 25, salary 150000, credit score 400 and balance
\* 200000 do not fire), and the list is empty when no condition holds.
C5_BusinessRules ==
    (call.op = "validate_business_rules" /\ BusinessFieldsNumeric(data))
    => LET a == data["age"].n < 25 /\ data["estimated_salary"].n > 150000
           b == data["credit_score"].n < 400 /\ data["balance"].n > 200000
           c == data["num_of_products"].n >= 4 /\ data["is_active_member"] = NO
           n(x) == IF x THEN 1 ELSE 0
       IN  /\ call.out.exc = "none"
           /\ "age_salary" \in Rules(call.out.value) <=> a
           /\ "credit_balance" \in Rules(call.out.value) <=> b
           /\ "products_inactive" \in Rules(call.out.value) <=> c
           /\ Len(call.out.value) = n(a) + n(b) + n(c)

\* the first rule alone has fired, the second sitting on its thresholds
C5_Witness ==
    /\ call.op = "validate_business_rules"
    /\ data["age"] = IntV(24) /\ data["estimated_salary"] = IntV(150001)
    /\ data["credit_score"] = IntV(399) /\ data["balance"] = IntV(200000)
    /\ Rules(call.out.value) = {"age_salary"}

--------------------------------------------------------------------------
(* CustomerData and its encoding *)

\* the columns of the model, in training order
MODEL_FEATURES ==
    <<"creditscore", "age", "tenure", "balance", "numofproducts", "hascrcard",
      "isactivemember", "estimatedsalary", "complain", "satisfaction score",
      "point earned", "Male", "Germany", "Spain", "GOLD", "PLATINUM", "SILVER">>

Bit(b) == IF b THEN IntV(1) ELSE IntV(0)

Entry(k, v) == [k |-> k, v |-> v]

\* Spain set for every country but France
to_dict_spain_not_france(self) ==
    <<Entry("creditscore", self["credit_score"]),
      Entry("age", self["age"]),
      Entry("tenure", self["tenure"]),
      Entry("balance", self["balance"]),
      Entry("numofproducts", self["num_of_products"]),
      Entry("hascrcard", Bit(self["has_credit_card"] = YES)),
      Entry("isactivemember", Bit(self["is_active_member"] = YES)),
      Entry("estimatedsalary", self["estimated_salary"]),
      Entry("complain", Bit(self["complain"] = YES)),
      Entry("satisfaction score", self["satisfaction_score"]),
      Entry("point earned", self["point_earned"]),
      Entry("Male", Bit(self["gender"] = EnumV("Gender", "MALE"))),
      Entry("Germany", Bit(self["country"] = EnumV("Country", "GERMANY"))),
      Entry("Spain", Bit(self["country"] # EnumV("Country", "FRANCE"))),
      Entry("GOLD", Bit(self["category"] = EnumV("Category", "GOLD"))),
      Entry("PLATINUM", Bit(self["category"] = EnumV("Category", "PLATINUM"))),
      Entry("SILVER", Bit(self["category"] = EnumV("Category", "SILVER")))>>

\* GOLD and SILVER derived from each other's member
to_dict_gold_silver_swapped(self) ==
    <<Entry("creditscore", self["credit_score"]),
      Entry("age", self["age"]),
      Entry("tenure", self["tenure"]),
      Entry("balance", self["balance"]),
      Entry("numofproducts", self["num_of_products"]),
      Entry("hascrcard", Bit(self["has_credit_card"] = YES)),
      Entry("isactivemember", Bit(self["is_active_member"] = YES)),
      Entry("estimatedsalary", self["estimated_salary"]),
      Entry("complain", Bit(self["complain"] = YES)),
      Entry("satisfaction score", self["satisfaction_score"]),
      Entry("point earned", self["point_earned"]),
      Entry("Male", Bit(self["gender"] = EnumV("Gender", "MALE"))),
      Entry("Germany", Bit(self["country"] = EnumV("Country", "GERMANY"))),
      Entry("Spain", Bit(self["country"] = EnumV("Country", "SPAIN"))),
      Entry("GOLD", Bit(self["category"] = EnumV("Category", "SILVER"))),
      Entry("PLATINUM", Bit(self["category"] = EnumV("Category", "PLATINUM"))),
      Entry("SILVER", Bit(self["category"] = EnumV("Category", "GOLD")))>>

\* the two labels written with an underscore instead of the space
to_dict_underscore_keys(self) ==
    <<Entry("creditscore", self["credit_score"]),
      Entry("age", self["age"]),
      Entry("tenure", self["tenure"]),
      Entry("balance", self["balance"]),
      Entry("numofproducts", self["num_of_products"]),
      Entry("hascrcard", Bit(self["has_credit_card"] = YES)),
      Entry("isactivemember", Bit(self["is_active_member"] = YES)),
      Entry("estimatedsalary", self["estimated_salary"]),
      Entry("complain", Bit(self["complain"] = YES)),
      Entry("satisfaction_score", self["satisfaction_score"]),
      Entry("point_earned", self["point_earned"]),
      Entry("Male", Bit(self["gender"] = EnumV("Gender", "MALE"))),
      Entry("Germany", Bit(self["country"] = EnumV("Country", "GERMANY"))),
      Entry("Spain", Bit(self["country"] = EnumV("Country", "SPAIN"))),
      Entry("GOLD", Bit(self["category"] = EnumV("Category", "GOLD"))),
      Entry("PLATINUM", Bit(self["category"] = EnumV("Category", "PLATINUM"))),
      Entry("SILVER", Bit(self["category"] = EnumV("Category", "SILVER")))>>

\* CustomerData.to_dict: the dict in insertion order
to_dict(self) ==
    <<Entry("creditscore", self["credit_score"]),
      Entry("age", self["age"]),
      Entry("tenure", self["tenure"]),
      Entry("balance", self["balance"]),
      Entry("numofproducts", self["num_of_products"]),
      Entry("hascrcard", Bit(self["has_credit_card"] = YES)),
      Entry("isactivemember", Bit(self["is_active_member"] = YES)),
      Entry("estimatedsalary", self["estimated_salary"]),
      Entry("complain", Bit(self["complain"] = YES)),
      Entry("satisfaction score", self["satisfaction_score"]),
      Entry("point earned", self["point_earned"]),
      Entry("Male", Bit(self["gender"] = EnumV("Gender", "MALE"))),
      Entry("Germany", Bit(self["country"] = EnumV("Country", "GERMANY"))),
      Entry("Spain", Bit(self["country"] = EnumV("Country", "SPAIN"))),
      Entry("GOLD", Bit(self["category"] = EnumV("Category", "GOLD"))),
      Entry("PLATINUM", Bit(self["category"] = EnumV("Category", "PLATINUM"))),
      Entry("SILVER", Bit(self["category"] = EnumV("Category", "SILVER")))>>

\* customer_data.to_dict(): predict calls it on whatever object it is
\* handed; an object that is no CustomerData answers with its own dict
Encode(c) == IF c.kind = "CustomerData" THEN to_dict(c.fields) ELSE c.dict

\* the column labels of a one-row frame, and the value under a label
Columns(df) == [i \in 1..Len(df) |-> df[i].k]
Lookup(df, k) == (CHOOSE i \in 1..Len(df) : df[i].k = k)

\* the difference taken the other way round
missing_features_reversed(df) == Range(Columns(df)) \ Range(MODEL_FEATURES)

\* set(MODEL_FEATURES) - set(input_df.columns)
missing_features(df) == Range(MODEL_FEATURES) \ Range(Columns(df))

\* the frame left in the order of the dict
SelectColumns_keep_order(df, labels) == [exc |-> "none", df |-> df]

\* input_df[labels]: the columns named, in the order named; KeyError when
\* a label is no column
SelectColumns(df, labels) ==
    IF Range(labels) \ Range(Columns(df)) # {}
    THEN [exc |-> "KeyError", df |-> <<>>]
    ELSE [exc |-> "none",
          df |-> [i \in 1..Len(labels) |-> df[Lookup(df, labels[i])]]]

--------------------------------------------------------------------------
(* The classifier: the externally trained artifact behind self.model.  It *)
(* is a fixed deterministic function of the row it is given; probabilities *)
(* are in ten-thousandths.                                                 *)

ProbTable == <<0, 2999, 3000, 5000, 5001, 6999, 7000, 10000>>

RECURSIVE RowScore(_, _)
RowScore(row, i) ==
    IF i > Len(row) THEN 0 ELSE i * (row[i].v.n % 11) + RowScore(row, i + 1)

\* model.predict_proba(input_df)[0][1]
predict_proba(row) == ProbTable[(RowScore(row, 1) % Len(ProbTable)) + 1]

\* model.predict(input_df)[0]: the class of larger probability
model_predict(row) == IF predict_proba(row) > 5000 THEN 1 ELSE 0

\* the classifier refuses a row holding anything but numbers
Numeric(row) == \A i \in 1..Len(row) : row[i].v.t = "int"

--------------------------------------------------------------------------
(* ChurnPredictor *)

\* the thresholds taken inclusively
get_risk_level_le(probability) ==
    IF probability <= 3000 THEN "Faible"
    ELSE IF probability <= 7000 THEN "Moyen"
    ELSE "Eleve"

\* ChurnPredictor._get_risk_level; "Eleve" stands for the accented label
get_risk_level(probability) ==
    IF probability < 3000 THEN "Faible"
    ELSE IF probability < 7000 THEN "Moyen"
    ELSE "Eleve"

\* _load_model behind st.cache_resource: the memo answers once it holds a
\* handle; otherwise joblib.load reads the artifact, and a failure is
\* raised as ModelLoadError and not memoized
\* the loader without its memo: every call reads the artifact
load_model_uncached ==
    IF artifact = "ok"
    THEN [exc |-> "none", model |-> "rf", cache |-> "rf", read |-> TRUE]
    ELSE [exc |-> "ModelLoadError", model |-> NoModel, cache |-> cache,
          read |-> FALSE]

\* read tells whether joblib.load deserialized the artifact
load_model ==
    IF cache # NoModel
    THEN [exc |-> "none", model |-> cache, cache |-> cache, read |-> FALSE]
    ELSE IF artifact = "ok"
    THEN [exc |-> "none", model |-> "rf", cache |-> "rf", read |-> TRUE]
    ELSE [exc |-> "ModelLoadError", model |-> NoModel, cache |-> cache,
          read |-> FALSE]

\* if self.model is None: self.model = self._load_model()
lazy_load(model) ==
    IF model = NoModel THEN load_model
    ELSE [exc |-> "none", model |-> model, cache |-> cache, read |-> FALSE]

\* PredictionError(f"Erreur de prediction : {e}"): the type of e and the
\* column labels its text lists
PredictionError(cause, names) ==
    [exc |-> "PredictionError",
     msg |-> [text |-> "Erreur de prediction", cause |-> cause, names |-> names],
     value |-> <<>>]

NotInvoked(out) == [out |-> out, invoked |-> FALSE, fed |-> <<>>]

\* predict after the lazy load, with the loaded model at hand: the outcome,
\* whether the classifier was invoked and the row it was fed
predict(customer_data) ==
    LET input_df == Encode(customer_data)
        missing == missing_features(input_df)
        sel == SelectColumns(input_df, MODEL_FEATURES)
    IN  IF missing # {}
        THEN NotInvoked(PredictionError("PredictionError", missing))
        ELSE IF sel.exc # "none"
        THEN NotInvoked(PredictionError(sel.exc,
                 Range(MODEL_FEATURES) \ Range(Columns(input_df))))
        ELSE IF ~Numeric(sel.df)
        THEN [out |-> PredictionError("ValueError", {}),
              invoked |-> TRUE, fed |-> sel.df]
        ELSE [out |-> Returned([prediction |-> model_predict(sel.df),
                                probability |-> predict_proba(sel.df),
                                risk_level |-> get_risk_level(predict_proba(sel.df))]),
              invoked |-> TRUE, fed |-> sel.df]

\* ChurnPredictor(): self.model = None, then _load_model() whose result is
\* dropped; a ModelLoadError leaves no new instance.  Every rerun of the
\* page makes a new instance.
Construct ==
    /\ LET ld == load_model
       IN  /\ ld.read => loads < MaxLoads
           /\ cache' = ld.cache
           /\ loads' = IF ld.read THEN loads + 1 ELSE loads
           /\ predictor' = IF ld.exc = "none"
                           THEN [built |-> TRUE, model |-> NoModel]
                           ELSE predictor
           /\ call' = [op |-> "ChurnPredictor", field |-> "", value |-> NoneV,
                       out |-> IF ld.exc = "none" THEN Returned(<<>>)
                               ELSE Raised(ld.exc, NoMsg)]
    /\ UNCHANGED <<py, flow, data, customer, artifact, first, batchVars, explainerVars>>

\* customer_data.to_dict() on a CustomerData
CallToDict ==
    /\ customer.kind = "CustomerData"
    /\ call' = [op |-> "to_dict", field |-> "", value |-> NoneV,
                out |-> Returned(to_dict(customer.fields))]
    /\ UNCHANGED <<py, flow, data, customer, predictorVars, batchVars, explainerVars>>

\* predict keeping its last result and handing it back, whatever its
\* argument, while no other operation came in between
predict_on_memoized(model, c) ==
    LET ld == lazy_load(model)
    IN  [ld |-> ld,
         r |-> IF ld.exc # "none"
               THEN NotInvoked(PredictionError(ld.exc, {}))
               ELSE IF call.op \in {"predict", "predict_other"}
               THEN [out |-> call.out, invoked |-> call.invoked, fed |-> call.fed]
               ELSE predict(c)]

\* predict with its lazy load in front of the try block: the exception of
\* the load leaves as it is
predict_on_load_outside_try(model, c) ==
    LET ld == lazy_load(model)
    IN  [ld |-> ld,
         r |-> IF ld.exc # "none"
               THEN NotInvoked(Raised(ld.exc, NoMsg))
               ELSE predict(c)]

\* self.predict(c) on an instance whose model attribute is model: the lazy
\* load, then the rest; any exception leaves as PredictionError
predict_on(model, c) ==
    LET ld == lazy_load(model)
    IN  [ld |-> ld,
         r |-> IF ld.exc # "none"
               THEN NotInvoked(PredictionError(ld.exc, {}))
               ELSE predict(c)]

\* predictor.predict(customer)
Predict ==
    /\ predictor.built
    /\ customer.kind # "none"
    /\ LET p == predict_on(predictor.model, customer)
       IN  /\ p.ld.read => loads < MaxLoads
           /\ cache' = p.ld.cache
           /\ loads' = IF p.ld.read THEN loads + 1 ELSE loads
           /\ predictor' = [predictor EXCEPT !.model = p.ld.model]
           /\ first' = IF first.seen THEN first
                        ELSE [seen |-> TRUE, others |-> FALSE, out |-> p.r.out]
           /\ call' = [op |-> "predict", field |-> "", value |-> NoneV,
                       out |-> p.r.out, invoked |-> p.r.invoked, fed |-> p.r.fed]
    /\ UNCHANGED <<py, flow, data, customer, artifact, batchVars, explainerVars>>

\* predictor.predict(c) for another customer of the session
PredictOther(c) ==
    /\ predictor.built
    /\ c # customer
    /\ LET p == predict_on(predictor.model, c)
       IN  /\ p.ld.read => loads < MaxLoads
           /\ cache' = p.ld.cache
           /\ loads' = IF p.ld.read THEN loads + 1 ELSE loads
           /\ predictor' = [predictor EXCEPT !.model = p.ld.model]
           /\ first' = [first EXCEPT !.others = first.seen]
           /\ call' = [op |-> "predict_other", field |-> "", value |-> NoneV,
                       out |-> p.r.out, invoked |-> p.r.invoked, fed |-> p.r.fed]
    /\ UNCHANGED <<py, flow, data, customer, artifact, batchVars, explainerVars>>

\* predictor.get_model_info(): the lazy load outside any try
GetModelInfo ==
    /\ predictor.built
    /\ LET ld == lazy_load(predictor.model)
       IN  /\ ld.read => loads < MaxLoads
           /\ cache' = ld.cache
           /\ loads' = IF ld.read THEN loads + 1 ELSE loads
           /\ predictor' = [predictor EXCEPT !.model = ld.model]
           /\ call' = [op |-> "get_model_info", field |-> "", value |-> NoneV,
                       out |-> IF ld.exc # "none" THEN Raised(ld.exc, NoMsg)
                               ELSE Returned([type |-> ld.model,
                                              features |-> MODEL_FEATURES,
                                              n_features |-> Len(MODEL_FEATURES)])]
    /\ UNCHANGED <<py, flow, data, customer, artifact, first, batchVars, explainerVars>>

\* the file at Settings.get_model_path() is put, removed or damaged
ArtifactChanges ==
    /\ \E a \in ArtifactStates \ {artifact} : artifact' = a
    /\ UNCHANGED <<py, flow, data, customer, cache, predictor, loads, first,
                   batchVars, explainerVars, call>>

\* the memo of st.cache_resource is emptied (the Clear cache command of the
\* Streamlit menu)
ClearCache ==
    /\ cache # NoModel
    /\ cache' = NoModel
    /\ UNCHANGED <<py, flow, data, customer, artifact, predictor, loads, first,
                   batchVars, explainerVars, call>>

--------------------------------------------------------------------------
(* Objects handed to the predictor *)

\* the numeric fields of valid_data, all at their minimum, all at their
\* maximum
NumericProfiles ==
    {Base,
     [f \in Fields |-> IF f \in Range(NumericFields)
                       THEN IntV(VALIDATION_RANGES[f].min) ELSE Base[f]],
     [f \in Fields |-> IF f \in Range(NumericFields)
                       THEN IntV(VALIDATION_RANGES[f].max) ELSE Base[f]]}

\* every combination of enumeration members on each numeric profile
CustomerRecords ==
    {[p EXCEPT !["gender"] = g, !["country"] = c, !["category"] = k,
               !["has_credit_card"] = h, !["is_active_member"] = a,
               !["complain"] = x]
       : p \in NumericProfiles, g \in MembersOf("Gender"),
         c \in MembersOf("Country"), k \in MembersOf("Category"),
         h \in MembersOf("BinaryChoice"), a \in MembersOf("BinaryChoice"),
         x \in MembersOf("BinaryChoice")}

Reverse(seq) == [i \in 1..Len(seq) |-> seq[Len(seq) + 1 - i]]
Without(seq, k) == SelectSeq(seq, LAMBDA e : e.k # k)

\* dicts of objects that are no CustomerData: a label missing, the two
\* spaced labels written with underscores, a label too many, the labels in
\* another order
OtherDicts ==
    {Without(to_dict(Base), k) : k \in {"creditscore", "point earned", "SILVER"}}
    \cup {to_dict_underscore_keys(Base),
          Without(Without(to_dict(Base), "Germany"), "Spain"),
          to_dict(Base) \o <<Entry("Exited", IntV(0))>>,
          <<Entry("RowNumber", IntV(7))>> \o to_dict(Base),
          Reverse(to_dict(Base)),
          Reverse(to_dict(Base) \o <<Entry("Exited", IntV(1))>>)}

Customers ==
    {[kind |-> "CustomerData", fields |-> r, dict |-> <<>>] : r \in CustomerRecords}
    \cup {[kind |-> "other", fields |-> Base, dict |-> d] : d \in OtherDicts}

InitPredictor ==
    /\ InitCommon
    /\ data = Base
    /\ customer \in Customers
    /\ artifact \in ArtifactStates
    /\ InitNoBatch
    /\ InitNoExplainer

NextPredictor ==
    \/ Construct
    \/ CallToDict
    \/ Predict

SpecPredictor == InitPredictor /\ [][NextPredictor]_vars

\* the customers of a session: valid_data, its two extreme profiles and
\* the objects that are no CustomerData
SessionCustomers ==
    {[kind |-> "CustomerData", fields |-> r, dict |-> <<>>] : r \in NumericProfiles}
    \cup {[kind |-> "other", fields |-> Base, dict |-> d] : d \in OtherDicts}

InitServing ==
    /\ InitCommon
    /\ data = Base
    /\ customer \in SessionCustomers
    /\ artifact \in ArtifactStates
    /\ InitNoBatch
    /\ InitNoExplainer

\* a session of the page: reruns, predictions, model information, while
\* the artifact may change on disk
NextServing ==
    \/ Construct
    \/ Predict
    \/ \E c \in SessionCustomers : PredictOther(c)
    \/ GetModelInfo
    \/ ArtifactChanges

SpecServing == InitServing /\ [][NextServing]_vars

\* the same session when the memo may also be emptied
NextServingCleared == NextServing \/ ClearCache

SpecServingCleared == InitServing /\ [][NextServingCleared]_vars

--------------------------------------------------------------------------
(* Claims about the encoding and the predictor *)

\* the number stored under a label of an encoding
ValueAt(d, k) == d[Lookup(d, k)].v

France == EnumV("Country", "FRANCE")
Rubis == EnumV("Category", "RUBIS")

\* C6: for every country and category, to_dict sets at most one of the
\* country indicators (Germany, Spain) and at most one of the category
\* indicators (GOLD, PLATINUM, SILVER) to 1; France yields both country
\* indicators 0 and Rubis all three category indicators 0.
C6_OneHotGroups ==
    call.op = "to_dict"
    => LET d == call.out.value
           countries == {k \in {"Germany", "Spain"} : ValueAt(d, k) = IntV(1)}
           categories == {k \in {"GOLD", "PLATINUM", "SILVER"} : ValueAt(d, k) = IntV(1)}
       IN  /\ Cardinality(countries) <= 1
           /\ Cardinality(categories) <= 1
           /\ customer.fields["country"] = France => countries = {}
           /\ customer.fields["category"] = Rubis => categories = {}

\* a German Platinum customer has been encoded with one bit in each group
C6_Witness ==
    /\ call.op = "to_dict"
    /\ customer.fields["country"] = EnumV("Country", "GERMANY")
    /\ customer.fields["category"] = EnumV("Category", "PLATINUM")
    /\ ValueAt(call.out.value, "Germany") = IntV(1)
    /\ ValueAt(call.out.value, "PLATINUM") = IntV(1)

SameNumbers(r1, r2) == \A f \in Range(NumericFields) : r1[f] = r2[f]

\* C7: to_dict is an exact and total encoding: each binary field is 1 for
\* YES and 0 for NO, Male is 1 iff the gender is MALE, Germany / Spain 1 iff
\* the country is that one, GOLD / PLATINUM / SILVER 1 iff the category is
\* that member, the numeric fields are copied unchanged, and two records
\* that differ in an enumerated field have different encodings.
C7_ExactEncoding ==
    call.op = "to_dict"
    => LET d == call.out.value
           r == customer.fields
           one(k, f, m) ==
               /\ ValueAt(d, k) \in {IntV(0), IntV(1)}
               /\ ValueAt(d, k) = IntV(1) <=> r[f] = m
       IN  /\ one("hascrcard", "has_credit_card", YES)
           /\ one("isactivemember", "is_active_member", YES)
           /\ one("complain", "complain", YES)
           /\ one("Male", "gender", EnumV("Gender", "MALE"))
           /\ one("Germany", "country", EnumV("Country", "GERMANY"))
           /\ one("Spain", "country", EnumV("Country", "SPAIN"))
           /\ one("GOLD", "category", EnumV("Category", "GOLD"))
           /\ one("PLATINUM", "category", EnumV("Category", "PLATINUM"))
           /\ one("SILVER", "category", EnumV("Category", "SILVER"))
           /\ ValueAt(d, "creditscore") = r["credit_score"]
           /\ ValueAt(d, "age") = r["age"]
           /\ ValueAt(d, "tenure") = r["tenure"]
           /\ ValueAt(d, "balance") = r["balance"]
           /\ ValueAt(d, "numofproducts") = r["num_of_products"]
           /\ ValueAt(d, "estimatedsalary") = r["estimated_salary"]
           /\ ValueAt(d, "satisfaction score") = r["satisfaction_score"]
           /\ ValueAt(d, "point earned") = r["point_earned"]
           /\ \A r2 \in CustomerRecords :
                (SameNumbers(r, r2) /\ r2 # r) => to_dict(r2) # d

\* a female Spanish Gold customer without card has been encoded
C7_Witness ==
    /\ call.op = "to_dict"
    /\ customer.fields["gender"] = EnumV("Gender", "FEMALE")
    /\ customer.fields["country"] = EnumV("Country", "SPAIN")
    /\ customer.fields["category"] = EnumV("Category", "GOLD")
    /\ customer.fields["has_credit_card"] = NO
    /\ ValueAt(call.out.value, "Male") = IntV(0)
    /\ ValueAt(call.out.value, "Spain") = IntV(1)
    /\ ValueAt(call.out.value, "GOLD") = IntV(1)
    /\ ValueAt(call.out.value, "hascrcard") = IntV(0)

\* get_shap_explanation: pd.DataFrame([data_dict])[MODEL_FEATURES]
ExplainerInput(c) == SelectColumns(Encode(c), MODEL_FEATURES)

\* C8: the row handed to the classifier by predict (and the row built for
\* the attribution engine by get_shap_explanation) has exactly the 17
\* columns of MODEL_FEATURES in that order, each holding the value the
\* encoding has under that label, whatever the key order of the encoding;
\* the key set of to_dict is the set of MODEL_FEATURES.
C8_FrozenColumnOrder ==
    /\ (call.op = "predict" /\ call.invoked) =>
          /\ Columns(call.fed) = MODEL_FEATURES
          /\ \A i \in 1..Len(MODEL_FEATURES) :
                call.fed[i].v = ValueAt(Encode(customer), MODEL_FEATURES[i])
    /\ (customer.kind # "none" /\ ExplainerInput(customer).exc = "none") =>
          /\ Columns(ExplainerInput(customer).df) = MODEL_FEATURES
          /\ \A i \in 1..Len(MODEL_FEATURES) :
                ExplainerInput(customer).df[i].v
                    = ValueAt(Encode(customer), MODEL_FEATURES[i])
    /\ call.op = "to_dict" =>
          /\ Range(Columns(call.out.value)) = Range(MODEL_FEATURES)
          /\ Len(call.out.value) = Len(MODEL_FEATURES)
    /\ Len(MODEL_FEATURES) = 17

\* the classifier has been fed from an encoding whose keys came reversed
C8_Witness ==
    /\ call.op = "predict"
    /\ call.invoked
    /\ Columns(Encode(customer)) = Reverse(MODEL_FEATURES)
    /\ Columns(call.fed) = MODEL_FEATURES

--------------------------------------------------------------------------
(* Claims about loading the model and about repeated predictions *)

\* the lazy load of an instance whose model attribute is unset would fail
LazyLoadFails == lazy_load(predictor.model).exc # "none"

\* C11: when the artifact cannot be loaded, the operation that triggered
\* the load (the constructor, predict, get_model_info) ends with
\* ModelLoadError, not with PredictionError.
C11_LoadFailureIsModelLoadError ==
    [][/\ (Construct /\ load_model.exc # "none")
            => call'.out.exc = "ModelLoadError"
       /\ (Predict /\ LazyLoadFails)
            => call'.out.exc = "ModelLoadError"
       /\ ((\E c \in SessionCustomers : PredictOther(c)) /\ LazyLoadFails)
            => call'.out.exc = "ModelLoadError"
       /\ (GetModelInfo /\ LazyLoadFails)
            => call'.out.exc = "ModelLoadError"]_vars

\* C12: over any sequence of constructions, predict and get_model_info
\* calls, the artifact is deserialized at most once; once the memo holds a
\* handle no call reads the disk again, the memo keeps that handle and an
\* instance that has a model has that handle.
C12_LoadedAtMostOnce ==
    /\ [](loads <= 1)
    /\ [](predictor.model # NoModel => predictor.model = cache)
    /\ [][cache # NoModel => (loads' = loads /\ cache' = cache)]_vars

\* the artifact was read once and is no longer loadable, and a later
\* predict or get_model_info has answered with the memoized handle
C12_Witness ==
    /\ loads = 1
    /\ artifact # "ok"
    /\ call.op \in {"predict", "get_model_info"}
    /\ call.out.exc = "none"
    /\ predictor.model = cache
    /\ cache # NoModel

PredictReturns ==
    /\ call'.op \in {"predict", "predict_other"}
    /\ artifact' = artifact
    /\ cache = NoModel \/ cache' = cache

\* C27: predict raises nothing but PredictionError: a call of predict
\* returns a result or ends with PredictionError, and an exception of the
\* lazy load, of the column check or of the classifier leaves as
\* PredictionError carrying its cause.
C27_PredictRaisesOnlyPredictionError ==
    [][PredictReturns =>
         /\ call'.out.exc \in {"none", "PredictionError"}
         /\ LazyLoadFails =>
              /\ call'.out.exc = "PredictionError"
              /\ call'.out.msg.cause = "ModelLoadError"
         /\ (~LazyLoadFails /\ call'.out.exc = "none") => call'.invoked]_vars

\* predict has ended with PredictionError because the model file could not
\* be loaded
C27_Witness ==
    /\ call.op = "predict"
    /\ call.out.exc = "PredictionError"
    /\ call.out.msg.cause = "ModelLoadError"
    /\ artifact # "ok"

--------------------------------------------------------------------------
(* BatchProcessor (ui/batch_processing.py).  A cell of the frame read by   *)
(* pd.read_csv is a number (IntV), a text that is no number (StrV), an     *)
(* empty cell (NanV), or nothing at all when the file has no such column   *)
(* (Absent).                                                               *)

\* "Erreur de conversion des donnees : <e>", e raised on the column field
ConversionMsg(field, cause) ==
    [NoMsg EXCEPT !.kind = "conversion", !.field = field, !.detail = cause]

\* row[f]: KeyError when the frame has no column f
Cell(row, f) ==
    IF row[f] = Absent THEN [exc |-> "KeyError", v |-> NoneV]
    ELSE [exc |-> "none", v |-> row[f]]

\* int(row[f]): ValueError on a text that is no number and on NaN
ToInt(row, f) ==
    LET c == Cell(row, f)
    IN  IF c.exc # "none" THEN c
        ELSE IF c.v.t = "int" THEN c
        ELSE [exc |-> "ValueError", v |-> NoneV]

\* float(row[f]): ValueError on a text that is no number; NaN stays NaN
ToFloat(row, f) ==
    LET c == Cell(row, f)
    IN  IF c.exc # "none" THEN c
        ELSE IF c.v.t \in {"int", "nan"} THEN c
        ELSE [exc |-> "ValueError", v |-> NoneV]

\* BinaryChoice.YES if row[f] == 'Oui' else BinaryChoice.NO
ToBinaryChoice(row, f) ==
    LET c == Cell(row, f)
    IN  IF c.exc # "none" THEN c
        ELSE [exc |-> "none", v |-> IF c.v = StrV("Oui") THEN YES ELSE NO]

\* Gender.MALE if row['gender'] == 'Homme' else Gender.FEMALE
ToGender(row, f) ==
    LET c == Cell(row, f)
    IN  IF c.exc # "none" THEN c
        ELSE [exc |-> "none",
              v |-> IF c.v = StrV("Homme") THEN EnumV("Gender", "MALE")
                    ELSE EnumV("Gender", "FEMALE")]

\* FRANCE if 'France', GERMANY if 'Allemagne', else SPAIN
ToCountry(row, f) ==
    LET c == Cell(row, f)
    IN  IF c.exc # "none" THEN c
        ELSE [exc |-> "none",
              v |-> IF c.v = StrV("France") THEN EnumV("Country", "FRANCE")
                    ELSE IF c.v = StrV("Allemagne") THEN EnumV("Country", "GERMANY")
                    ELSE EnumV("Country", "SPAIN")]

\* RUBIS, SILVER, GOLD by name, else PLATINUM
ToCategory(row, f) ==
    LET c == Cell(row, f)
    IN  IF c.exc # "none" THEN c
        ELSE [exc |-> "none",
              v |-> IF c.v = StrV("RUBIS") THEN EnumV("Category", "RUBIS")
                    ELSE IF c.v = StrV("SILVER") THEN EnumV("Category", "SILVER")
                    ELSE IF c.v = StrV("GOLD") THEN EnumV("Category", "GOLD")
                    ELSE EnumV("Category", "PLATINUM")]

\* the keyword arguments of CustomerData(...) in the order they are
\* evaluated
ConversionOrder ==
    <<"credit_score", "age", "tenure", "balance", "num_of_products",
      "estimated_salary", "satisfaction_score", "point_earned",
      "has_credit_card", "is_active_member", "complain", "gender", "country",
      "category">>

\* the conversion written for each argument
Convert(row, f) ==
    IF f \in {"balance", "estimated_salary"} THEN ToFloat(row, f)
    ELSE IF f \in Range(NumericFields) THEN ToInt(row, f)
    ELSE IF f = "gender" THEN ToGender(row, f)
    ELSE IF f = "country" THEN ToCountry(row, f)
    ELSE IF f = "category" THEN ToCategory(row, f)
    ELSE ToBinaryChoice(row, f)

\* BatchProcessor._row_to_customer_data: the first argument that raises
\* ValueError or KeyError ends the conversion with DataValidationError
row_to_customer_data(row) ==
    LET failing == {i \in 1..Len(ConversionOrder) :
                      Convert(row, ConversionOrder[i]).exc # "none"}
    IN  IF failing # {}
        THEN LET i == CHOOSE j \in failing : \A k \in failing : j <= k
                 f == ConversionOrder[i]
             IN  Raised("DataValidationError",
                        ConversionMsg(f, Convert(row, f).exc))
        ELSE Returned([f \in Fields |-> Convert(row, f).v])

\* "Ligne {idx + 1}: ..." in errors: the messages of the validation, or
\* "Erreur de traitement - " and the message of the exception a conversion
\* or a prediction raised
ErrorEntry(idx, kind, msgs) == [Ligne |-> idx + 1, kind |-> kind, msgs |-> msgs]

\* member.value
EnumValue(v) ==
    EnumRawValues[v.t][CHOOSE i \in 1..Len(EnumMembers[v.t]) :
                         EnumMembers[v.t][i] = v.s]

\* result_data tagged with the index of the row as it is, from 0
result_entry_tagged_from_zero(idx, c, result) ==
    [Ligne |-> idx,
     Age |-> c["age"],
     Pays |-> EnumValue(c["country"]),
     Categorie |-> EnumValue(c["category"]),
     Score_Credit |-> c["credit_score"],
     Prediction_Churn |-> result.prediction,
     Probabilite_Churn |-> result.probability,
     Niveau_Risque |-> result.risk_level,
     Decision |-> IF result.prediction = 1 THEN "PARTIR" ELSE "RESTER"]

\* result_data
ResultEntry(idx, c, result) ==
    [Ligne |-> idx + 1,
     Age |-> c["age"],
     Pays |-> EnumValue(c["country"]),
     Categorie |-> EnumValue(c["category"]),
     Score_Credit |-> c["credit_score"],
     Prediction_Churn |-> result.prediction,
     Probabilite_Churn |-> result.probability,
     Niveau_Risque |-> result.risk_level,
     Decision |-> IF result.prediction = 1 THEN "PARTIR" ELSE "RESTER"]

\* what a pass of the loop body leaves: the entry appended to results or
\* to errors, whether predict was called, and what the lazy load did
RowOutcome(ld, results, errors, predicted) ==
    [ld |-> ld, results |-> results, errors |-> errors, predicted |-> predicted]

\* the loop body that loses a row whose conversion fails
process_row_drops_conversion_failure(model, conv, idx) ==
    LET v == validate_customer_data(conv.value)
        p == predict_on(model, [kind |-> "CustomerData", fields |-> conv.value,
                                dict |-> <<>>])
    IN  IF conv.exc # "none"
        THEN RowOutcome(lazy_load("held"), <<>>, <<>>, FALSE)
        ELSE IF v.value # <<>>
        THEN RowOutcome(lazy_load("held"), <<>>,
                        <<ErrorEntry(idx, "validation", v.value)>>, FALSE)
        ELSE IF p.r.out.exc # "none"
        THEN RowOutcome(p.ld, <<>>,
                        <<ErrorEntry(idx, "prediction", <<p.r.out.msg>>)>>, TRUE)
        ELSE RowOutcome(p.ld, <<ResultEntry(idx, conv.value, p.r.out.value)>>,
                        <<>>, TRUE)

\* the loop body that predicts a row whatever its validation says
process_row_predicts_invalid(model, conv, idx) ==
    LET v == validate_customer_data(conv.value)
        p == predict_on(model, [kind |-> "CustomerData", fields |-> conv.value,
                                dict |-> <<>>])
    IN  IF conv.exc # "none"
        THEN RowOutcome(lazy_load("held"), <<>>,
                        <<ErrorEntry(idx, "conversion", <<conv.msg>>)>>, FALSE)
        ELSE IF v.value # <<>>
        THEN RowOutcome(p.ld, <<>>,
                        <<ErrorEntry(idx, "validation", v.value)>>, TRUE)
        ELSE IF p.r.out.exc # "none"
        THEN RowOutcome(p.ld, <<>>,
                        <<ErrorEntry(idx, "prediction", <<p.r.out.msg>>)>>, TRUE)
        ELSE RowOutcome(p.ld, <<ResultEntry(idx, conv.value, p.r.out.value)>>,
                        <<>>, TRUE)

\* the body of the for loop of _process_batch_predictions for the row of
\* index idx, conv being the outcome of its conversion: validation of
\* customer_data.__dict__, `continue` on validation errors, prediction;
\* `except Exception` turns a failed conversion or prediction into an
\* error entry.  lazy_load("held") is the load that does nothing.
process_row(model, conv, idx) ==
    LET v == validate_customer_data(conv.value)
        p == predict_on(model, [kind |-> "CustomerData", fields |-> conv.value,
                                dict |-> <<>>])
    IN  IF conv.exc # "none"
        THEN RowOutcome(lazy_load("held"), <<>>,
                        <<ErrorEntry(idx, "conversion", <<conv.msg>>)>>, FALSE)
        ELSE IF v.value # <<>>
        THEN RowOutcome(lazy_load("held"), <<>>,
                        <<ErrorEntry(idx, "validation", v.value)>>, FALSE)
        ELSE IF p.r.out.exc # "none"
        THEN RowOutcome(p.ld, <<>>,
                        <<ErrorEntry(idx, "prediction", <<p.r.out.msg>>)>>, TRUE)
        ELSE RowOutcome(p.ld, <<ResultEntry(idx, conv.value, p.r.out.value)>>,
                        <<>>, TRUE)

\* the churn rate taken over every row of the file
display_batch_results_rate_over_rows(results, errors) ==
    LET total_processed == Len(results)
        total_errors == Len(errors)
        churn_predictions ==
            Cardinality({i \in 1..Len(results) : results[i].Prediction_Churn = 1})
    IN  [total_processed |-> total_processed,
         total_errors |-> total_errors,
         churn_predictions |-> churn_predictions,
         churn_rate |-> IF total_processed > 0
                        THEN [shown |-> TRUE, of |-> churn_predictions,
                              by |-> total_processed + total_errors]
                        ELSE [shown |-> FALSE, of |-> 0, by |-> 0]]

\* BatchProcessor._display_batch_results: the four metrics; the churn rate
\* is the quotient of `of` by `by`, times 100, computed only when rows were
\* processed
display_batch_results(results, errors) ==
    LET total_processed == Len(results)
        total_errors == Len(errors)
        churn_predictions ==
            Cardinality({i \in 1..Len(results) : results[i].Prediction_Churn = 1})
    IN  [total_processed |-> total_processed,
         total_errors |-> total_errors,
         churn_predictions |-> churn_predictions,
         churn_rate |-> IF total_processed > 0
                        THEN [shown |-> TRUE, of |-> churn_predictions,
                              by |-> total_processed]
                        ELSE [shown |-> FALSE, of |-> 0, by |-> 0]]

\* the call has ended: the lists and the metrics shown
BatchDone(results, errors) ==
    [op |-> "process_batch", field |-> "", value |-> NoneV,
     out |-> Returned(display_batch_results(results, errors))]

\* _process_batch_predictions(df) up to its loop: BatchProcessor() makes a
\* ChurnPredictor, whose ModelLoadError ends the call; with no row the
\* results are displayed at once
StartBatch ==
    /\ run.pos = 0
    /\ LET ld == load_model
       IN  /\ ld.read => loads < MaxLoads
           /\ cache' = ld.cache
           /\ loads' = IF ld.read THEN loads + 1 ELSE loads
           /\ run' = IF ld.exc # "none" THEN run ELSE [run EXCEPT !.pos = 1]
           /\ call' = IF ld.exc # "none"
                      THEN [op |-> "process_batch", field |-> "", value |-> NoneV,
                            out |-> Raised(ld.exc, NoMsg)]
                      ELSE IF Len(batch) = 0 THEN BatchDone(<<>>, <<>>)
                      ELSE [op |-> "BatchProcessor", field |-> "", value |-> NoneV,
                            out |-> Returned(<<>>)]
    /\ UNCHANGED <<py, flow, data, customer, artifact, predictor, first, batch,
                   explainerVars>>

\* one pass of the loop; after the last row the results are displayed
BatchRow ==
    /\ run.pos \in 1..Len(batch)
    /\ \E conv \in {row_to_customer_data(batch[run.pos])} :
       \E o \in {process_row(run.model, conv, run.pos - 1)} :
       LET results == run.results \o o.results
           errors == run.errors \o o.errors
       IN  /\ o.ld.read => loads < MaxLoads
           /\ cache' = o.ld.cache
           /\ loads' = IF o.ld.read THEN loads + 1 ELSE loads
           /\ run' = [pos |-> run.pos + 1,
                      model |-> IF o.predicted THEN o.ld.model ELSE run.model,
                      results |-> results,
                      errors |-> errors,
                      predicted |-> IF o.predicted
                                    THEN run.predicted \cup {run.pos}
                                    ELSE run.predicted]
           /\ call' = IF run.pos = Len(batch) THEN BatchDone(results, errors)
                      ELSE [op |-> "batch_row", field |-> "", value |-> NoneV,
                            out |-> Returned(<<>>)]
    /\ UNCHANGED <<py, flow, data, customer, artifact, predictor, first, batch,
                   explainerVars>>

\* the row of the template file that valid_data is, in the words of the
\* file
RawOf(d) ==
    [f \in Fields |-> IF IsEnumInstance(d[f]) THEN StrV(EnumValue(d[f])) ELSE d[f]]

\* rows of a file: two that are predicted, an out-of-range credit score, an
\* age that is no number, a young customer with a high salary
RawRows ==
    {RawOf(Base),
     RawOf([Base EXCEPT !["age"] = IntV(61), !["is_active_member"] = NO,
                        !["country"] = EnumV("Country", "GERMANY")]),
     [RawOf(Base) EXCEPT !["credit_score"] = IntV(200)],
     [RawOf(Base) EXCEPT !["age"] = StrV("abc")],
     [RawOf(Base) EXCEPT !["age"] = IntV(22), !["estimated_salary"] = IntV(200000)]}

\* rows of a file with empty cells: in the balance, in the age
RawRowsEmptyCells ==
    {RawOf(Base),
     [RawOf(Base) EXCEPT !["balance"] = NanV],
     [RawOf(Base) EXCEPT !["age"] = NanV]}

\* rows of a file that has no tenure column
RawRowsLacking ==
    {[RawOf(Base) EXCEPT !["tenure"] = Absent],
     [RawOf(Base) EXCEPT !["tenure"] = Absent, !["age"] = StrV("abc")]}

\* rows of a file with a word outside the vocabulary of a column: in the
\* country, in the category, in has_credit_card
RawRowsUnknownWords ==
    {[RawOf(Base) EXCEPT !["country"] = StrV("Italie")],
     [RawOf(Base) EXCEPT !["category"] = StrV("BRONZE")],
     [RawOf(Base) EXCEPT !["has_credit_card"] = StrV("yes")]}

\* rows in a file
MaxRows == 3

\* df is a file of at most MaxRows rows of one of the four sorts
IsFrame(df) ==
    \E n \in 0..MaxRows :
       \/ df \in [1..n -> RawRows]
       \/ n > 0 /\ df \in [1..n -> RawRowsEmptyCells]
       \/ n > 0 /\ df \in [1..n -> RawRowsLacking]
       \/ n > 0 /\ df \in [1..n -> RawRowsUnknownWords]

InitBatch ==
    /\ InitCommon
    /\ data = Base
    /\ customer = NoCustomer
    /\ artifact \in ArtifactStates
    /\ IsFrame(batch)
    /\ run = Idle
    /\ InitNoExplainer

\* a file is processed while the artifact may change on disk and the memo
\* may be emptied
NextBatch ==
    \/ StartBatch
    \/ BatchRow
    \/ ArtifactChanges
    \/ ClearCache

SpecBatch == InitBatch /\ [][NextBatch]_vars

--------------------------------------------------------------------------
(* Claims about the batch runner *)

\* the rows the loop has been through
Processed == 1..(run.pos - 1)

ResultsOf(i) == {j \in 1..Len(run.results) : run.results[j].Ligne = i}
ErrorsOf(i) == {j \in 1..Len(run.errors) : run.errors[j].Ligne = i}

BatchCompleted == call.op = "process_batch" /\ call.out.exc = "none"

\* C14: every row of the batch is processed whatever failed on a row
\* before it, and every row leaves exactly one outcome, a result entry or
\* an error entry: len(results) + len(errors) is the number of rows.
C14_EveryRowOneOutcome ==
    /\ run.pos >= 1 =>
         /\ Len(run.results) + Len(run.errors) = run.pos - 1
         /\ \A i \in Processed :
              Cardinality(ResultsOf(i)) + Cardinality(ErrorsOf(i)) = 1
    /\ BatchCompleted =>
         /\ run.pos = Len(batch) + 1
         /\ Len(run.results) + Len(run.errors) = Len(batch)
    /\ (call.op = "process_batch" /\ call.out.exc # "none") => run.pos = 0

\* a batch has completed in which a conversion failed on one row, a
\* prediction failed on a later row and a row after both was predicted
C14_Witness ==
    /\ BatchCompleted
    /\ \E i, j, k \in 1..Len(batch) :
         /\ i < j /\ j < k
         /\ \E e \in ErrorsOf(i) : run.errors[e].kind = "conversion"
         /\ \E e \in ErrorsOf(j) : run.errors[e].kind = "prediction"
         /\ ResultsOf(k) # {}

\* C15: a row whose validation list is not empty leaves one error entry
\* carrying that list and predict is not called for it; predict is called
\* only for rows whose validation list is empty.
C15_InvalidRowsNotPredicted ==
    run.pos >= 1 =>
      \A i \in Processed :
        LET conv == row_to_customer_data(batch[i])
            v == validate_customer_data(conv.value).value
        IN  /\ (conv.exc = "none" /\ v # <<>>) =>
                 /\ i \notin run.predicted
                 /\ ResultsOf(i) = {}
                 /\ \E e \in ErrorsOf(i) : /\ run.errors[e].kind = "validation"
                                           /\ run.errors[e].msgs = v
            /\ i \in run.predicted => (conv.exc = "none" /\ v = <<>>)

\* a batch has completed with a row refused by the validation and not
\* predicted, and a row predicted
C15_Witness ==
    /\ BatchCompleted
    /\ \E i, k \in 1..Len(batch) :
         /\ \E e \in ErrorsOf(i) : run.errors[e].kind = "validation"
         /\ i \notin run.predicted
         /\ k \in run.predicted
         /\ ResultsOf(k) # {}

\* the single-prediction flow (app.py main) rejects a mapping when
\* validate_customer_data or validate_business_rules reports an error
SingleFlowRejects(d) ==
    \/ validate_customer_data(d).value # <<>>
    \/ validate_business_rules(d).value # <<>>

\* C16: a row that the single-prediction flow would reject, a violation of
\* a business-consistency rule included, leaves an error entry in the
\* batch and is not predicted.
C16_SameValidationAsSingleFlow ==
    run.pos >= 1 =>
      \A i \in Processed :
        LET conv == row_to_customer_data(batch[i])
        IN  (conv.exc = "none" /\ SingleFlowRejects(conv.value)) =>
              /\ i \notin run.predicted
              /\ ResultsOf(i) = {}
              /\ ErrorsOf(i) # {}

\* the metrics shown
Metrics == call.out.value

\* C17: total processed is the number of result entries, total errored the
\* number of rows without a result, the churn count the number of results
\* of label 1, the churn rate the churn count over the processed rows; with
\* no processed row no rate is computed.
C17_Aggregates ==
    BatchCompleted =>
      LET failed == {i \in 1..Len(batch) : ResultsOf(i) = {}}
          churn == {j \in 1..Len(run.results) : run.results[j].Prediction_Churn = 1}
      IN  /\ Metrics.total_processed = Len(run.results)
          /\ Metrics.total_errors = Cardinality(failed)
          /\ Metrics.churn_predictions = Cardinality(churn)
          /\ Metrics.churn_rate.shown = (Len(run.results) > 0)
          /\ Metrics.churn_rate.shown =>
               /\ Metrics.churn_rate.of = Cardinality(churn)
               /\ Metrics.churn_rate.by = Len(run.results)
               /\ Metrics.churn_rate.by > 0

\* a batch has completed with an out-of-range row in error, a row of label
\* 1 and a row of label 0: the rate shown is one over two
C17_Witness ==
    /\ BatchCompleted
    /\ Len(batch) = 3
    /\ Metrics.total_errors = 1
    /\ \E e \in 1..Len(run.errors) :
         /\ run.errors[e].kind = "validation"
         /\ run.errors[e].msgs[1].kind = "range"
    /\ Metrics.total_processed = 2
    /\ Metrics.churn_predictions = 1
    /\ Metrics.churn_rate = [shown |-> TRUE, of |-> 1, by |-> 2]

\* a cell of an enumeration column holds a word that is none of the words
\* of the column
OutsideVocabulary(row) ==
    \E f \in Range(EnumFields) :
       /\ row[f].t = "str"
       /\ row[f].s \notin Range(EnumRawValues[EnumClassOf[f]])

\* C26: a row with a word outside the vocabulary in an enumeration column
\* (country 'Italie', category 'BRONZE', has_credit_card 'yes') leaves an
\* error entry tagged with its row and is not predicted: the word is never
\* taken for a member of the enumeration.
C26_UnknownWordsAreErrors ==
    run.pos >= 1 =>
      \A i \in Processed :
        OutsideVocabulary(batch[i]) =>
          /\ i \notin run.predicted
          /\ ResultsOf(i) = {}
          /\ ErrorsOf(i) # {}

\* C28: the result entries, and the error entries, are in increasing order
\* of input row; every entry carries Ligne = row index + 1 of a row already
\* processed; and the entry tagged with a row says what that very row has
\* given: its own age, country, category and credit score, and its own
\* conversion or validation messages.
C28_EntriesInRowOrder ==
    run.pos >= 1 =>
      /\ \A j, k \in 1..Len(run.results) :
           j < k => run.results[j].Ligne < run.results[k].Ligne
      /\ \A j, k \in 1..Len(run.errors) :
           j < k => run.errors[j].Ligne < run.errors[k].Ligne
      /\ \A j \in 1..Len(run.results) :
           /\ run.results[j].Ligne \in Processed
           /\ LET conv == row_to_customer_data(batch[run.results[j].Ligne])
              IN  /\ conv.exc = "none"
                  /\ run.results[j].Age = conv.value["age"]
                  /\ run.results[j].Pays = EnumValue(conv.value["country"])
                  /\ run.results[j].Categorie = EnumValue(conv.value["category"])
                  /\ run.results[j].Score_Credit = conv.value["credit_score"]
                  /\ run.results[j].Ligne \in run.predicted
      /\ \A j \in 1..Len(run.errors) :
           /\ run.errors[j].Ligne \in Processed
           /\ LET conv == row_to_customer_data(batch[run.errors[j].Ligne])
              IN  /\ run.errors[j].kind = "conversion" =>
                       /\ conv.exc # "none"
                       /\ run.errors[j].msgs = <<conv.msg>>
                  /\ run.errors[j].kind = "validation" =>
                       /\ conv.exc = "none"
                       /\ run.errors[j].msgs =
                            validate_customer_data(conv.value).value
                  /\ run.errors[j].kind = "prediction" =>
                       run.errors[j].Ligne \in run.predicted

\* a batch of three different rows has completed: the first and the third
\* have a result, tagged 1 and 3 and showing 35 and 61 years, the second an
\* error tagged 2
C28_Witness ==
    /\ BatchCompleted
    /\ Len(batch) = 3
    /\ Len(run.results) = 2
    /\ run.results[1].Ligne = 1 /\ run.results[1].Age = IntV(35)
    /\ run.results[2].Ligne = 3 /\ run.results[2].Age = IntV(61)
    /\ Len(run.errors) = 1
    /\ run.errors[1].Ligne = 2

--------------------------------------------------------------------------
(* SHAPExplainer._generate_background_data (models/explainer.py).  A row   *)
(* of the sample is given by its five indicator columns that the           *)
(* consistency loop reads and writes; the loop touches no other column.    *)

IndicatorColumns == {"Germany", "Spain", "GOLD", "PLATINUM", "SILVER"}

\* what np.random.choice([0, 1], ...) may give for the five columns of a row
IndicatorRows == [IndicatorColumns -> {0, 1}]

\* if Germany == 1: Spain = 0 / elif Spain == 1: Germany = 0
fix_country(r) ==
    IF r["Germany"] = 1 THEN [r EXCEPT !["Spain"] = 0]
    ELSE IF r["Spain"] = 1 THEN [r EXCEPT !["Germany"] = 0]
    ELSE r

\* the category step without its elif
fix_category_platinum_only(r) ==
    IF r["PLATINUM"] = 1 THEN [r EXCEPT !["GOLD"] = 0, !["SILVER"] = 0]
    ELSE r

\* if PLATINUM == 1: GOLD, SILVER = 0 / elif GOLD == 1: SILVER = 0
fix_category(r) ==
    IF r["PLATINUM"] = 1 THEN [r EXCEPT !["GOLD"] = 0, !["SILVER"] = 0]
    ELSE IF r["GOLD"] = 1 THEN [r EXCEPT !["SILVER"] = 0]
    ELSE r

\* the loop over the rows of the frame built from the draw
generate_background_data(d) ==
    [i \in 1..Len(d) |-> fix_category(fix_country(d[i]))]

\* self._generate_background_data()
GenerateBackground ==
    /\ call' = [op |-> "_generate_background_data", field |-> "", value |-> NoneV,
                out |-> Returned(generate_background_data(draw))]
    /\ UNCHANGED <<py, flow, data, customer, predictorVars, batchVars, explainerVars>>

\* rows of the sample followed (n_samples in the code is 100)
MaxSampleRows == 2

InitBackground ==
    /\ InitCommon
    /\ data = Base
    /\ customer = NoCustomer
    /\ artifact = "ok"
    /\ InitNoBatch
    /\ shap = TRUE
    /\ explainer = NoExplainer
    /\ ecache = EmptyMemo
    /\ \E n \in 0..MaxSampleRows : draw \in [1..n -> IndicatorRows]
    /\ shap_dict = NoShapDict
    /\ builds = 0

NextBackground == GenerateBackground

SpecBackground == InitBackground /\ [][NextBackground]_vars

--------------------------------------------------------------------------
(* SHAPExplainer (models/explainer.py).  The attribution engine is the     *)
(* external shap library: here it is the handle "shap.Explainer" and what  *)
(* it computes for a row is Explanation(row).                              *)

\* the dictionary returned for a row once the engine has explained it
Explanation(row) ==
    [engine |-> "shap.Explainer", feature_values |-> [i \in 1..Len(row) |-> row[i].v]]

\* _initialize_explainer without st.cache_resource: the body runs at every
\* call
initialize_explainer_uncached(model) ==
    IF ~shap \/ model = NoModel
    THEN [explainer |-> "None", background |-> NoBackground,
          memo |-> [filled |-> TRUE, explainer |-> "None",
                    background |-> NoBackground],
          attempted |-> TRUE]
    ELSE [explainer |-> "shap.Explainer",
          background |-> Background(generate_background_data(draw)),
          memo |-> [filled |-> TRUE, explainer |-> "shap.Explainer",
                    background |-> Background(generate_background_data(draw))],
          attempted |-> TRUE]

\* _initialize_explainer behind st.cache_resource for an instance whose
\* predictor has the given model attribute: the memo answers once it has
\* been filled, with whatever pair was returned; otherwise (None, None)
\* without shap, (None, None) when building the engine raises (reading
\* predict_proba of a model that is None is AttributeError), else the engine
\* and the background sample.  attempted tells whether the body ran.
initialize_explainer(model) ==
    IF ecache.filled
    THEN [explainer |-> ecache.explainer, background |-> ecache.background,
          memo |-> ecache, attempted |-> FALSE]
    ELSE IF ~shap \/ model = NoModel
    THEN [explainer |-> "None", background |-> NoBackground,
          memo |-> [filled |-> TRUE, explainer |-> "None",
                    background |-> NoBackground],
          attempted |-> TRUE]
    ELSE [explainer |-> "shap.Explainer",
          background |-> Background(generate_background_data(draw)),
          memo |-> [filled |-> TRUE, explainer |-> "shap.Explainer",
                    background |-> Background(generate_background_data(draw))],
          attempted |-> TRUE]

\* if self.explainer is None:
\*     self.explainer, self.background_data = self._initialize_explainer()
lazy_initialize(self) ==
    IF self.explainer = "None" THEN initialize_explainer(self.model)
    ELSE [explainer |-> self.explainer, background |-> self.background,
          memo |-> ecache, attempted |-> FALSE]

\* what a method of the explainer leaves: its outcome, the instance, the
\* memo, and whether the body of _initialize_explainer ran
ExplainerOutcome(out, self, memo, attempted) ==
    [out |-> out, self |-> self, memo |-> memo, attempted |-> attempted]

\* get_shap_explanation without its test of SHAP_AVAILABLE
get_shap_explanation_unguarded(self, customer_data) ==
    LET init == lazy_initialize(self)
        after == [self EXCEPT !.explainer = init.explainer,
                              !.background = init.background]
        sel == SelectColumns(Encode(customer_data), MODEL_FEATURES)
    IN  IF init.explainer = "None"
        THEN ExplainerOutcome(Returned(NoneV), after, init.memo, init.attempted)
        ELSE IF sel.exc # "none" \/ ~Numeric(sel.df)
        THEN ExplainerOutcome(Returned(NoneV), after, init.memo, init.attempted)
        ELSE ExplainerOutcome(Returned(Explanation(sel.df)), after, init.memo, init.attempted)

\* SHAPExplainer.get_shap_explanation: None without shap; otherwise the
\* lazy initialization, None when there is no engine, the explanation of
\* the MODEL_FEATURES columns of the encoding; any exception gives None
get_shap_explanation(self, customer_data) ==
    LET init == lazy_initialize(self)
        after == [self EXCEPT !.explainer = init.explainer,
                              !.background = init.background]
        sel == SelectColumns(Encode(customer_data), MODEL_FEATURES)
    IN  IF ~shap
        THEN ExplainerOutcome(Returned(NoneV), self, ecache, FALSE)
        ELSE IF init.explainer = "None"
        THEN ExplainerOutcome(Returned(NoneV), after, init.memo, init.attempted)
        ELSE IF sel.exc # "none" \/ ~Numeric(sel.df)
        THEN ExplainerOutcome(Returned(NoneV), after, init.memo, init.attempted)
        ELSE ExplainerOutcome(Returned(Explanation(sel.df)), after, init.memo, init.attempted)

\* SHAPExplainer.get_feature_importance_comparison: None without shap;
\* reading feature_importances_ of a model that is None raises, which gives
\* None before any initialization; otherwise the lazy initialization and
\* the comparison
get_feature_importance_comparison(self) ==
    LET init == lazy_initialize(self)
        after == [self EXCEPT !.explainer = init.explainer,
                              !.background = init.background]
    IN  IF ~shap \/ self.model = NoModel
        THEN ExplainerOutcome(Returned(NoneV), self, ecache, FALSE)
        ELSE IF init.explainer = "None"
        THEN ExplainerOutcome(Returned(NoneV), after, init.memo, init.attempted)
        ELSE ExplainerOutcome(Returned(StrV("comparison")), after, init.memo, init.attempted)

\* SHAPExplainer(): explainer and background_data None, then
\* ChurnPredictor(), whose ModelLoadError leaves no new instance
ConstructExplainer ==
    /\ explainer.instance < MaxInstances
    /\ LET ld == load_model
       IN  /\ ld.read => loads < MaxLoads
           /\ cache' = ld.cache
           /\ loads' = IF ld.read THEN loads + 1 ELSE loads
           /\ explainer' = IF ld.exc = "none"
                           THEN [NoExplainer EXCEPT
                                   !.built = TRUE,
                                   !.instance = explainer.instance + 1]
                           ELSE explainer
           /\ call' = [op |-> "SHAPExplainer", field |-> "", value |-> NoneV,
                       out |-> IF ld.exc = "none" THEN Returned(<<>>)
                               ELSE Raised(ld.exc, NoMsg)]
    /\ UNCHANGED <<py, flow, data, customer, artifact, predictor, first, batchVars,
                   shap, ecache, draw, shap_dict, builds>>

\* explainer.get_shap_explanation(customer)
GetShapExplanation ==
    /\ explainer.built
    /\ customer.kind # "none"
    /\ \E o \in {get_shap_explanation(explainer, customer)} :
         /\ o.attempted => builds < MaxBuilds
         /\ explainer' = o.self
         /\ ecache' = o.memo
         /\ builds' = IF o.attempted THEN builds + 1 ELSE builds
         /\ call' = [op |-> "get_shap_explanation", field |-> "", value |-> NoneV,
                     out |-> o.out]
    /\ UNCHANGED <<py, flow, data, customer, predictorVars, batchVars, shap, draw,
                   shap_dict>>

\* explainer.get_feature_importance_comparison()
GetFeatureImportanceComparison ==
    /\ explainer.built
    /\ \E o \in {get_feature_importance_comparison(explainer)} :
         /\ o.attempted => builds < MaxBuilds
         /\ explainer' = o.self
         /\ ecache' = o.memo
         /\ builds' = IF o.attempted THEN builds + 1 ELSE builds
         /\ call' = [op |-> "get_feature_importance_comparison", field |-> "",
                     value |-> NoneV, out |-> o.out]
    /\ UNCHANGED <<py, flow, data, customer, predictorVars, batchVars, shap, draw,
                   shap_dict>>

\* the sample drawn under np.random.seed(42): one row, with every
\* indicator at 1 or with every indicator at 0
SeededDraws ==
    {<<[c \in IndicatorColumns |-> b]>> : b \in {0, 1}}

InitExplainer ==
    /\ InitCommon
    /\ data = Base
    /\ customer \in SessionCustomers
    /\ artifact \in ArtifactStates
    /\ InitNoBatch
    /\ shap \in BOOLEAN
    /\ explainer = NoExplainer
    /\ ecache = EmptyMemo
    /\ draw \in SeededDraws
    /\ shap_dict = NoShapDict
    /\ builds = 0

\* a page that predicts and explains, with or without shap installed
NextExplainer ==
    \/ Construct
    \/ Predict
    \/ ConstructExplainer
    \/ GetShapExplanation
    \/ GetFeatureImportanceComparison
    \/ ArtifactChanges

SpecExplainer == InitExplainer /\ [][NextExplainer]_vars

--------------------------------------------------------------------------
(* Claims about the explainer *)

ExplainerMethods == {"get_shap_explanation", "get_feature_importance_comparison"}

\* C18: without shap, get_shap_explanation and
\* get_feature_importance_comparison return None, raise nothing and make no
\* attempt to build the engine, and predict still answers; with or without
\* shap, get_shap_explanation never raises.
C18_ExplainerDegradesToNone ==
    /\ call.op \in ExplainerMethods => call.out.exc = "none"
    /\ ~shap =>
         /\ call.op \in ExplainerMethods => call.out.value = NoneV
         /\ ~ecache.filled
         /\ explainer.explainer = "None"
         /\ (call.op = "predict" /\ customer.kind = "CustomerData") =>
              /\ call.out.exc = "none"
              /\ call.out.value.probability = predict_proba(call.fed)

\* without shap: the customer was predicted with a result, and then
\* get_shap_explanation has returned None with the memo of the engine
\* still empty
C18_Witness ==
    /\ ~shap
    /\ first.seen
    /\ first.out.exc = "none"
    /\ call.op = "get_shap_explanation"
    /\ call.out = Returned(NoneV)
    /\ ~ecache.filled

--------------------------------------------------------------------------
\* C22: over any sequence of get_shap_explanation and
\* get_feature_importance_comparison calls on any number of SHAPExplainer
\* instances of one process, the body of _initialize_explainer, which makes
\* the background sample and the engine, runs at most once; once the memo
\* is filled no call changes it or runs the body again, and a call that
\* initializes its instance gives it the pair of the memo.
C22_BuiltAtMostOnce ==
    /\ [](builds <= 1)
    /\ [][ecache.filled =>
            /\ ecache' = ecache
            /\ builds' = builds
            /\ \/ explainer' = explainer
               \/ explainer'.instance # explainer.instance
               \/ /\ explainer'.explainer = ecache.explainer
                  /\ explainer'.background = ecache.background]_vars

\* the body of _initialize_explainer has run once, and get_shap_explanation
\* has just returned on a second SHAPExplainer while shap is available
C22_Witness ==
    /\ shap
    /\ builds = 1
    /\ ecache.filled
    /\ explainer.instance = 2
    /\ call.op = "get_shap_explanation"

\* C25: when shap is available and the artifact has loaded,
\* get_shap_explanation on a SHAPExplainer for a valid customer returns an
\* attribution result and not None, the predictor of the explainer holding
\* a classifier handle that is not None when the engine is built.
C25_ExplanationWhenAvailable ==
    (/\ call.op = "get_shap_explanation"
     /\ shap
     /\ explainer.built
     /\ customer.kind = "CustomerData")
    => /\ call.out.value # NoneV
       /\ explainer.model # NoModel

(* Claims about the background sample *)

\* C20: whatever is drawn, no row of the background sample has Germany and
\* Spain both 1 nor more than one of GOLD, PLATINUM, SILVER at 1; on a
\* conflict Germany is kept over Spain, PLATINUM over GOLD and GOLD over
\* SILVER; the columns not in conflict keep what was drawn.
C20_BackgroundOneHot ==
    call.op = "_generate_background_data" =>
      /\ Len(call.out.value) = Len(draw)
      /\ \A i \in 1..Len(draw) :
           LET raw == draw[i]
               row == call.out.value[i]
           IN  /\ ~(row["Germany"] = 1 /\ row["Spain"] = 1)
               /\ row["GOLD"] + row["PLATINUM"] + row["SILVER"] <= 1
               /\ row["Germany"] = raw["Germany"]
               /\ row["Spain"] = (IF raw["Germany"] = 1 THEN 0 ELSE raw["Spain"])
               /\ row["PLATINUM"] = raw["PLATINUM"]
               /\ row["GOLD"] = (IF raw["PLATINUM"] = 1 THEN 0 ELSE raw["GOLD"])
               /\ row["SILVER"] = (IF raw["PLATINUM"] = 1 \/ raw["GOLD"] = 1
                                   THEN 0 ELSE raw["SILVER"])

\* a row drawn with all five indicators at 1 has come out as Germany and
\* PLATINUM only, next to a row drawn with GOLD and SILVER that has come out
\* as GOLD only
C20_Witness ==
    /\ call.op = "_generate_background_data"
    /\ \E i, j \in 1..Len(draw) :
         /\ \A c \in IndicatorColumns : draw[i][c] = 1
         /\ call.out.value[i] = [c \in IndicatorColumns |->
                                   IF c \in {"Germany", "PLATINUM"} THEN 1 ELSE 0]
         /\ draw[j] = [c \in IndicatorColumns |->
                         IF c \in {"GOLD", "SILVER"} THEN 1 ELSE 0]
         /\ call.out.value[j] = [c \in IndicatorColumns |->
                                   IF c = "GOLD" THEN 1 ELSE 0]

--------------------------------------------------------------------------
(* SHAPExplainer.interpret_shap_values *)

\* a contribution is kept in thousandths: 0.1 is 100
Magnitude(x) == IF x < 0 THEN -x ELSE x

\* one item of shap_values.items(): the feature and its contribution
Item(feature, shap_val) == [feature |-> feature, shap_val |-> shap_val]

\* the place an item takes in a list already in descending order of
\* magnitude: behind every item that is not smaller
InsertDescending(acc, x) ==
    LET k == Cardinality({i \in 1..Len(acc) :
                            Magnitude(acc[i].shap_val) >= Magnitude(x.shap_val)})
    IN  SubSeq(acc, 1, k) \o <<x>> \o SubSeq(acc, k + 1, Len(acc))

\* the place an item takes in a list already in ascending order of
\* magnitude: behind every item that is not larger
InsertAscending(acc, x) ==
    LET k == Cardinality({i \in 1..Len(acc) :
                            Magnitude(acc[i].shap_val) <= Magnitude(x.shap_val)})
    IN  SubSeq(acc, 1, k) \o <<x>> \o SubSeq(acc, k + 1, Len(acc))

RECURSIVE SortDescending(_, _)
SortDescending(items, acc) ==
    IF items = <<>> THEN acc
    ELSE SortDescending(Tail(items), InsertDescending(acc, Head(items)))

RECURSIVE SortAscending(_, _)
SortAscending(items, acc) ==
    IF items = <<>> THEN acc
    ELSE SortAscending(Tail(items), InsertAscending(acc, Head(items)))

\* an ascending sort whose result is reversed: equal magnitudes come out in
\* the reverse of the order they had
sorted_then_reversed(items) == Reverse(SortAscending(items, <<>>))

\* sorted(shap_values.items(), key=lambda x: abs(x[1]), reverse=True): the
\* sort is stable, and reverse=True keeps the original order of items whose
\* keys are equal
sorted_by_abs(items) == SortDescending(items, <<>>)

\* feature_values[feature]
FeatureValue(feature_values, feature) ==
    LET i == CHOOSE i \in 1..Len(feature_values) :
                 feature_values[i].feature = feature
    IN  feature_values[i].value

\* the sentence made for one feature: the wording chosen by its name, the
\* value shown, "fortement" above 0.1 in magnitude and "modérément"
\* otherwise, "augmente" for a positive contribution and "diminue" otherwise
Interpretation(item, feature_values) ==
    [feature |-> item.feature,
     wording |-> IF item.feature \in {"age", "creditscore", "satisfaction score",
                                      "numofproducts", "balance"}
                 THEN item.feature ELSE "other",
     feature_val |-> FeatureValue(feature_values, item.feature),
     magnitude |-> IF Magnitude(item.shap_val) > 100 THEN "fortement"
                   ELSE "modérément",
     impact |-> IF item.shap_val > 0 THEN "augmente" ELSE "diminue"]

\* SHAPExplainer.interpret_shap_values: nothing for no dictionary, else the
\* sentences of sorted_features[:5], in that order (the dictionary returned
\* keeps the order of insertion, and no feature occurs twice)
interpret_shap_values(d) ==
    IF d.none THEN <<>>
    ELSE LET sorted_features == sorted_by_abs(d.shap_values)
             top == SubSeq(sorted_features, 1,
                           IF Len(sorted_features) < 5 THEN Len(sorted_features)
                           ELSE 5)
         IN  [i \in 1..Len(top) |-> Interpretation(top[i], d.feature_values)]

\* SHAPExplainer.interpret_shap_values(shap_dict)
InterpretShapValues ==
    /\ call' = [op |-> "interpret_shap_values", field |-> "", value |-> NoneV,
                out |-> Returned(interpret_shap_values(shap_dict))]
    /\ UNCHANGED <<py, flow, data, customer, predictorVars, batchVars, explainerVars>>

\* features of the dictionaries followed (MODEL_FEATURES has 17)
MaxFeatures == 6

\* contributions followed: -0.15, -0.05, 0 and 0.05
Contributions == {-150, -50, 0, 50}

\* what get_shap_explanation returns: None, or the contributions and the
\* values of the same features, in the order of MODEL_FEATURES
ShapDicts(n) ==
    {[none |-> FALSE,
      shap_values |-> [i \in 1..n |-> Item(MODEL_FEATURES[i], v[i])],
      feature_values |-> [i \in 1..n |-> [feature |-> MODEL_FEATURES[i],
                                          value |-> i]]] :
        v \in [1..n -> Contributions]}

InitInterpret ==
    /\ InitCommon
    /\ data = Base
    /\ customer = NoCustomer
    /\ artifact = "ok"
    /\ InitNoBatch
    /\ shap = TRUE
    /\ explainer = NoExplainer
    /\ ecache = EmptyMemo
    /\ draw = <<>>
    /\ builds = 0
    /\ \/ shap_dict = NoShapDict
       \/ \E n \in 0..MaxFeatures : shap_dict \in ShapDicts(n)

NextInterpret == InterpretShapValues

SpecInterpret == InitInterpret /\ [][NextInterpret]_vars

(* Claims about the interpretation *)

\* the place of the i-th item in the ranking by magnitude, descending, an
\* earlier item before a later one of the same magnitude
RankOf(items, i) ==
    1 + Cardinality({j \in 1..Len(items) :
          \/ Magnitude(items[j].shap_val) > Magnitude(items[i].shap_val)
          \/ /\ Magnitude(items[j].shap_val) = Magnitude(items[i].shap_val)
             /\ j < i})

Interpreted == call.op = "interpret_shap_values"

\* C21: interpret_shap_values ranks the features by the magnitude of their
\* contribution, descending, features of equal magnitude in their original
\* order, and returns an interpretation for exactly the first min(5, n)
\* features of that ranking: the feature ranked k-th, k <= 5, is the k-th
\* entry, and a feature ranked below 5 has no entry.
C21_TopFiveByMagnitude ==
    Interpreted =>
      LET items == shap_dict.shap_values
          n == Len(items)
          out == call.out.value
      IN  /\ call.out.exc = "none"
          /\ Len(out) = IF n < 5 THEN n ELSE 5
          /\ \A i \in 1..n :
               IF RankOf(items, i) <= 5
               THEN out[RankOf(items, i)].feature = items[i].feature
               ELSE \A k \in 1..Len(out) : out[k].feature # items[i].feature

\* six features were interpreted: two of the same magnitude and opposite
\* signs among the five kept, the earlier one first, and a sixth of the
\* magnitude of the fifth left out
C21_Witness ==
    /\ Interpreted
    /\ Len(shap_dict.shap_values) = 6
    /\ Len(call.out.value) = 5
    /\ \E i, j \in 1..6 :
         /\ i < j
         /\ shap_dict.shap_values[i].shap_val = 50
         /\ shap_dict.shap_values[j].shap_val = -50
         /\ \E k \in 1..4 :
              /\ call.out.value[k].feature = shap_dict.shap_values[i].feature
              /\ call.out.value[k + 1].feature = shap_dict.shap_values[j].feature
    /\ \E i \in 1..6 :
         /\ Magnitude(shap_dict.shap_values[i].shap_val) =
              Magnitude(shap_dict.shap_values[
                 CHOOSE m \in 1..6 : shap_dict.shap_values[m].feature =
                                       call.out.value[5].feature].shap_val)
         /\ \A k \in 1..5 :
              call.out.value[k].feature # shap_dict.shap_values[i].feature

(* Claims about what the validators leave behind *)

ValidatorCalls == {"validate_customer_data", "validate_business_rules"}

\* C23: validate_customer_data and validate_business_rules are free of side
\* effects: a step in which one of them returns leaves the mapping with the
\* same keys and the same values, and changes nothing else of the program
\* (interpreter, customer, artifact, memo, predictor, batch run, explainer).
C23_ValidatorsChangeNothing ==
    [][call'.op \in ValidatorCalls =>
         /\ data' = data
         /\ UNCHANGED <<py, flow, customer, predictorVars, batchVars,
                        explainerVars>>]_vars

\* validate_business_rules has returned on a mapping that lacks age, for
\* which it read the default 0: the key is still absent
C23_Witness ==
    /\ call.op = "validate_business_rules"
    /\ call.out.exc = "none"
    /\ data["age"] = Absent

\* C30: validate_business_rules returns a list and does not raise, for
\* every mapping that validate_customer_data takes: fields absent and
\* fields present with the value None included.
C30_BusinessRulesNeverRaise ==
    (/\ call.op = "validate_business_rules"
     /\ \A f \in Range(NumericFields) : data[f].t \in {"int", "none", "absent"})
    => call.out.exc = "none"

(* The single-prediction flow: app.main and PredictionPage.render *)

\* the errors of validate_customer_data alone
all_errors_validation_only(validation_errors, business_errors) ==
    validation_errors

\* all_errors = validation_errors + business_errors
all_errors(validation_errors, business_errors) ==
    validation_errors \o business_errors

\* predictor = ChurnPredictor(); user_data = collect_user_inputs(); the
\* button pressed.  A ModelLoadError leaves the try block: the run is over.
SubmitForm ==
    /\ flow.pos = "idle"
    /\ LET ld == load_model
       IN  /\ ld.read => loads < MaxLoads
           /\ cache' = ld.cache
           /\ loads' = IF ld.read THEN loads + 1 ELSE loads
           /\ predictor' = IF ld.exc = "none"
                           THEN [built |-> TRUE, model |-> NoModel]
                           ELSE predictor
           /\ flow' = [flow EXCEPT !.pos = IF ld.exc = "none" THEN "validate"
                                           ELSE "failed"]
           /\ call' = [op |-> "ChurnPredictor", field |-> "", value |-> NoneV,
                       out |-> IF ld.exc = "none" THEN Returned(<<>>)
                               ELSE Raised(ld.exc, NoMsg)]
    /\ UNCHANGED <<py, data, customer, artifact, first, batchVars, explainerVars>>

\* validate_customer_data, validate_business_rules, and
\* render_error_message(all_errors) followed by st.stop() when it shows
\* errors; an exception of validate_business_rules leaves the try block
ValidateForm ==
    /\ flow.pos = "validate"
    /\ \E v \in {validate_customer_data(data)} :
       \E b \in {validate_business_rules(data)} :
         IF b.exc # "none"
         THEN /\ flow' = [pos |-> "failed", validation_errors |-> v.value,
                          business_errors |-> <<>>]
              /\ call' = [op |-> "validate_business_rules", field |-> "",
                          value |-> NoneV, out |-> b]
         ELSE /\ flow' = [pos |-> IF all_errors(v.value, b.value) # <<>>
                                  THEN "stopped" ELSE "build",
                          validation_errors |-> v.value,
                          business_errors |-> b.value]
              /\ call' = [op |-> "render_error_message", field |-> "",
                          value |-> NoneV,
                          out |-> Returned(all_errors(v.value, b.value))]
    /\ data' = after_get(data)
    /\ UNCHANGED <<py, customer, predictorVars, batchVars, explainerVars>>

\* customer_data = CustomerData(**user_data)
BuildRecord ==
    /\ flow.pos = "build"
    /\ customer' = [kind |-> "CustomerData", fields |-> data, dict |-> <<>>]
    /\ flow' = [flow EXCEPT !.pos = "predict"]
    /\ call' = [op |-> "CustomerData", field |-> "", value |-> NoneV,
                out |-> Returned(<<>>)]
    /\ UNCHANGED <<py, data, predictorVars, batchVars, explainerVars>>

\* result = predictor.predict(customer_data), the end of the run
PredictRecord ==
    /\ flow.pos = "predict"
    /\ LET p == predict_on(predictor.model, customer)
       IN  /\ p.ld.read => loads < MaxLoads
           /\ cache' = p.ld.cache
           /\ loads' = IF p.ld.read THEN loads + 1 ELSE loads
           /\ predictor' = [predictor EXCEPT !.model = p.ld.model]
           /\ first' = IF first.seen THEN first
                        ELSE [seen |-> TRUE, others |-> FALSE, out |-> p.r.out]
           /\ call' = [op |-> "predict", field |-> "", value |-> NoneV,
                       out |-> p.r.out, invoked |-> p.r.invoked, fed |-> p.r.fed]
    /\ flow' = [flow EXCEPT !.pos = "done"]
    /\ UNCHANGED <<py, data, customer, artifact, batchVars, explainerVars>>

\* what collect_user_inputs returns: the number widgets and sliders hold a
\* number inside the range of the field, the select boxes a member of the
\* enumeration
EnumVariants ==
    UNION {{[Base EXCEPT ![f] = m] : m \in MembersOf(EnumClassOf[f])}
           : f \in Range(EnumFields)}

WidgetInputs ==
    {d \in BoundaryInputs \cup BusinessInputs \cup EnumVariants :
        /\ \A f \in Range(NumericFields) : InRange(d[f], f)
        /\ \A f \in Range(EnumFields) : d[f] \in MembersOf(EnumClassOf[f])}

InitSingleFlow ==
    /\ InitCommon
    /\ data \in WidgetInputs
    /\ customer = NoCustomer
    /\ artifact \in ArtifactStates
    /\ InitNoBatch
    /\ InitNoExplainer

NextSingleFlow ==
    \/ SubmitForm
    \/ ValidateForm
    \/ BuildRecord
    \/ PredictRecord

SpecSingleFlow == InitSingleFlow /\ [][NextSingleFlow]_vars

(* Claims about the single-prediction flow *)

BothListsEmpty(d) ==
    /\ validate_customer_data(d) = Returned(<<>>)
    /\ validate_business_rules(d) = Returned(<<>>)

\* C24: in the single-prediction flow a CustomerData exists, and predict has
\* been called, only after both validators returned an empty list for the
\* submitted mapping; once the validators have run with a list that is not
\* empty the run has stopped with no record built and no prediction made;
\* the record handed to predict is the submitted mapping, every numeric
\* field inside its range and every enumeration field a member.
C24_RecordOnlyAfterValidation ==
    /\ (customer.kind # "none" \/ call.op = "predict") =>
         /\ BothListsEmpty(data)
         /\ flow.validation_errors = <<>>
         /\ flow.business_errors = <<>>
         /\ flow.pos \in {"predict", "done"}
         /\ customer.kind = "CustomerData"
         /\ customer.fields = data
         /\ FullyAcceptable(customer.fields)
    /\ call.op = "predict" => flow.pos = "done"
    /\ (flow.pos \notin {"idle", "validate"} /\ ~BothListsEmpty(data)) =>
         /\ flow.pos \in {"stopped", "failed"}
         /\ customer = NoCustomer
         /\ call.op # "predict"

\* a customer of 24 with a salary of 150000, the largest the first business
\* rule lets through, has been validated, built and predicted
C24_Witness ==
    /\ flow.pos = "done"
    /\ call.op = "predict"
    /\ call.out.exc = "none"
    /\ data["age"] = IntV(24)
    /\ data["estimated_salary"] = IntV(150000)
    /\ customer.fields = data

\* the run of a customer of 24 with a salary of 150001 has stopped on the
\* business rule, with no record built
C24_WitnessStopped ==
    /\ flow.pos = "stopped"
    /\ data["age"] = IntV(24)
    /\ data["estimated_salary"] = IntV(150001)
    /\ flow.validation_errors = <<>>
    /\ flow.business_errors # <<>>
    /\ customer = NoCustomer

(* The whole program *)

Init ==
    \/ InitNumericField
    \/ InitValidator
    \/ InitPredictor
    \/ InitServing
    \/ InitBatch
    \/ InitBackground
    \/ InitExplainer
    \/ InitInterpret
    \/ InitSingleFlow

Next ==
    \/ NextNumericField
    \/ NextValidator
    \/ NextPredictor
    \/ NextServingCleared
    \/ NextBatch
    \/ NextBackground
    \/ NextExplainer
    \/ NextInterpret
    \/ NextSingleFlow

Spec == Init /\ [][Next]_vars

==========================================================================
